---- MODULE Spec2Model ----
(***************************************************************************)
(* A model of the services of meal_planner:                                *)
(*   - RecipeExtractionService.extract_recipe (core/services.py), the      *)
(*     primary/fallback OCR orchestration, one action per code segment     *)
(*     between two awaits;                                                 *)
(*   - OllamaProvider (ml/llm/ollama_provider.py): _generate and the four  *)
(*     operations that slice a JSON object out of the model's text;        *)
(*   - RecipeStorageService (core/services.py): the recipes directory as   *)
(*     a function from identifiers to files, with save, delete, list and   *)
(*     search; text searched is a sequence of characters;                  *)
(*   - MealPlanService.generate_meal_plan (core/services.py);              *)
(*   - the meal-plans router (api/routers/meal_plans.py) with its two      *)
(*     in-memory stores;                                                   *)
(*   - Recipe.save_to_file and load_from_file (core/models.py) with the    *)
(*     text of each recipe file, the storage service reading and writing   *)
(*     them, the recipes router (api/routers/recipes.py), and save_recipe  *)
(*     calls that run side by side;                                        *)
(*   - the OCR engines (ml/ocr/pymupdf_engine.py, marker_engine.py);       *)
(*   - the database RecipeService and RecipeRatingService                  *)
(*     (db/services.py), a table being a function from keys to rows;       *)
(*   - the users router (api/routers/users.py) with its in-memory store.   *)
(*                                                                         *)
(* Text is a sequence of lexemes.  "{" and "}" are the characters the      *)
(* provider searches for; the other lexemes are brace-free pieces of text  *)
(* (a quote, a bracket, a comma, a literal, a word of prose).  A lexeme of *)
(* Keys stands for a quoted member name with its colon: the lexeme         *)
(* "title" at a member position is the text "title": of the JSON document. *)
(* Confidences are percentages (0.5 is 50).                                *)
(***************************************************************************)
EXTENDS Integers, Sequences, FiniteSets, TLC

\* ---------------------------------------------------------------- bounds

\* Longest prose put before and after the body of a model response.
MaxPad == 1

\* ------------------------------------------------------- python values

\* F applied to the value of e, with e evaluated once
Bind(e, F(_)) == CHOOSE v \in {F(x) : x \in {e}} : TRUE

PyNone == [t |-> "None"]
PyInt(n) == [t |-> "int", n |-> n]
PyFloat(n) == [t |-> "float", n |-> n]
PyBool(b) == [t |-> "bool", b |-> b]
PyStr(s) == [t |-> "str", s |-> s]
PyList(items) == [t |-> "list", items |-> items]
PyDict(keys, vals) == [t |-> "dict", keys |-> keys, vals |-> vals]

\* key in d
HasKey(d, k) == \E i \in 1..Len(d.keys) : d.keys[i] = k

\* d[key]
GetKey(d, k) == d.vals[CHOOSE i \in 1..Len(d.keys) : d.keys[i] = k]

\* d.get(key, default)
DictGet(d, k, default) == IF HasKey(d, k) THEN GetKey(d, k) ELSE default

\* d[key] = value: a repeated member name keeps its place and takes the last value
DictSet(d, k, value) ==
    LET Set(v) ==
            IF HasKey(d, k)
            THEN PyDict(d.keys, [i \in 1..Len(d.vals) |-> IF d.keys[i] = k THEN v ELSE d.vals[i]])
            ELSE PyDict(Append(d.keys, k), Append(d.vals, v))
    IN  Bind(value, Set)

\* ----------------------------------------------------------- str methods

SetMin(S) == CHOOSE x \in S : \A y \in S : x <= y
SetMax(S) == CHOOSE x \in S : \A y \in S : x >= y

\* str.find(c): the 0-based index of the first occurrence, -1 when there is none
Find(s, c) ==
    LET at == {i \in 1..Len(s) : s[i] = c}
    IN  IF at = {} THEN -1 ELSE SetMin(at) - 1

\* str.rfind(c): the 0-based index of the last occurrence, -1 when there is none
RFind(s, c) ==
    LET at == {i \in 1..Len(s) : s[i] = c}
    IN  IF at = {} THEN -1 ELSE SetMax(at) - 1

\* A slice that forgets its start: s[:b]
Slice_IgnoresStart(s, a, b) == SubSeq(s, 1, IF b > Len(s) THEN Len(s) ELSE b)

\* s[a:b] for 0 <= a
Slice(s, a, b) == SubSeq(s, a + 1, IF b > Len(s) THEN Len(s) ELSE b)

\* ------------------------------------------------------------ json.loads

Quote == "\""
Keys == {"detected_issues", "quality_score", "is_recipe_content", "recommended_action",
         "title", "ingredients", "instructions", "meal_types", "prep_time_minutes",
         "cook_time_minutes", "servings", "tags", "dietary_restrictions", "name",
         "error", "message", "days", "calories", "grocery_items", "date", "quantity",
         "total_cost", "nutrition_summary", "id", "notes", "estimated_cost",
         "created_at", "updated_at"}

\* The readings of time.time() that are told apart
MaxClock == 2
Times == 0..MaxClock

\* A float as JSON writes it: repr(float)
FloatLexeme(n) == ToString(n) \o ".0"
FloatLexemes == {FloatLexeme(n) : n \in Times}

Literals == {"null", "1", "true", "false"} \cup FloatLexemes

RECURSIVE ValueEnd(_, _)
RECURSIVE ItemsEnd(_, _)
RECURSIVE MembersEnd(_, _)

\* The position after the string that opens at i, 0 when it is not closed.  A member
\* name inside it closes it at the name's own quote, and what follows is no JSON.
StringEnd(s, i) ==
    LET First(stop) ==
            IF stop = {} THEN 0
            ELSE IF s[SetMin(stop)] = Quote THEN SetMin(stop) + 1 ELSE 0
    IN  Bind({j \in (i + 1)..Len(s) : s[j] = Quote \/ s[j] \in Keys}, First)

\* The position after the JSON value that starts at i, 0 when there is none.
ValueEnd(s, i) ==
    IF i > Len(s) THEN 0
    ELSE IF s[i] \in Literals THEN i + 1
    ELSE IF s[i] = Quote THEN StringEnd(s, i)
    ELSE IF s[i] = "[" THEN
        IF i + 1 <= Len(s) /\ s[i + 1] = "]" THEN i + 2 ELSE ItemsEnd(s, i + 1)
    ELSE IF s[i] = "{" THEN
        IF i + 1 <= Len(s) /\ s[i + 1] = "}" THEN i + 2 ELSE MembersEnd(s, i + 1)
    ELSE 0

\* The position after the "]" of the array whose next item starts at i.
ItemsEnd(s, i) ==
    LET After(e) ==
            IF e = 0 \/ e > Len(s) THEN 0
            ELSE IF s[e] = "," THEN ItemsEnd(s, e + 1)
            ELSE IF s[e] = "]" THEN e + 1
            ELSE 0
    IN  Bind(ValueEnd(s, i), After)

\* The position after the "}" of the object whose next member starts at i.
MembersEnd(s, i) ==
    IF i > Len(s) \/ s[i] \notin Keys THEN 0
    ELSE LET After(e) ==
                 IF e = 0 \/ e > Len(s) THEN 0
                 ELSE IF s[e] = "," THEN MembersEnd(s, e + 1)
                 ELSE IF s[e] = "}" THEN e + 1
                 ELSE 0
         IN  Bind(ValueEnd(s, i + 1), After)

\* json.loads accepts s: one value and nothing after it
JsonValid(s) == Len(s) > 0 /\ ValueEnd(s, 1) = Len(s) + 1

RECURSIVE PyValue(_, _)
RECURSIVE PyItems(_, _)
RECURSIVE PyMembers(_, _, _)

\* The python value of the JSON value that starts at i (s is valid there).
PyValue(s, i) ==
    IF s[i] = "null" THEN PyNone
    ELSE IF s[i] = "1" THEN PyInt(1)
    ELSE IF s[i] \in FloatLexemes THEN PyFloat(CHOOSE n \in Times : FloatLexeme(n) = s[i])
    ELSE IF s[i] = "true" THEN PyBool(TRUE)
    ELSE IF s[i] = "false" THEN PyBool(FALSE)
    ELSE IF s[i] = Quote THEN PyStr(SubSeq(s, i + 1, StringEnd(s, i) - 2))
    ELSE IF s[i] = "[" THEN
        IF s[i + 1] = "]" THEN PyList(<<>>) ELSE PyList(PyItems(s, i + 1))
    ELSE
        IF s[i + 1] = "}" THEN PyDict(<<>>, <<>>)
        ELSE PyMembers(s, i + 1, PyDict(<<>>, <<>>))

PyItems(s, i) ==
    LET After(e) ==
            IF s[e] = "," THEN <<PyValue(s, i)>> \o PyItems(s, e + 1)
            ELSE <<PyValue(s, i)>>
    IN  Bind(ValueEnd(s, i), After)

PyMembers(s, i, d) ==
    LET After(e) ==
            IF s[e] = ","
            THEN PyMembers(s, e + 1, DictSet(d, s[i], PyValue(s, i + 1)))
            ELSE DictSet(d, s[i], PyValue(s, i + 1))
    IN  Bind(ValueEnd(s, i + 1), After)

\* json.loads(s): the value, or JSONDecodeError
JsonLoads(s) ==
    IF JsonValid(s) THEN [exc |-> "none", ret |-> PyValue(s, 1)]
    ELSE [exc |-> "JSONDecodeError", ret |-> PyNone]

\* ------------------------------------------------------- OllamaProvider

\* What the transport does with one POST /generate:
\*   ok      status 200, the body's "response" is the text pre \o body \o suf
\*   nokey   status 200, the body has no "response" member
\*   nonstr  status 200, the body's "response" is null
\*   status  another status, the error text is body
\*   raise   session.post or response.json() raises, str(e) is body
OutcomeKinds == {"ok", "nokey", "nonstr", "status", "raise"}
Outcome(kind, pre, body, suf) == [kind |-> kind, pre |-> pre, body |-> body, suf |-> suf]

\* except json.JSONDecodeError: the other exceptions leave the operation
ExceptException_JsonOnly(exc) == exc = "JSONDecodeError"

\* except Exception: every exception of the try block is handled
ExceptException(exc) == TRUE

\* str(e) / the text of an error, as lexemes
ErrorText(exc, msg) == IF exc = "ClientError" THEN msg ELSE <<exc>>

\* What the try block of _generate does: return a value or raise.
GenerateBody(outcome) ==
    CASE outcome.kind = "raise" ->
            [exc |-> "ClientError", msg |-> outcome.body, ret |-> PyNone]
      [] outcome.kind = "status" ->
            [exc |-> "none", msg |-> <<>>, ret |-> PyStr(<<"Error:">> \o outcome.body)]
      [] outcome.kind = "nokey" ->
            [exc |-> "none", msg |-> <<>>, ret |-> PyStr(<<>>)]
      [] outcome.kind = "nonstr" ->
            [exc |-> "none", msg |-> <<>>, ret |-> PyNone]
      [] OTHER ->
            [exc |-> "none", msg |-> <<>>,
             ret |-> PyStr(outcome.pre \o outcome.body \o outcome.suf)]

\* _generate(prompt)
Generate(outcome) ==
    LET Handle(b) ==
            IF b.exc = "none" THEN [exc |-> "none", ret |-> b.ret]
            ELSE IF ExceptException(b.exc)
            THEN [exc |-> "none", ret |-> PyStr(<<"Error:">> \o ErrorText(b.exc, b.msg))]
            ELSE [exc |-> b.exc, ret |-> PyNone]
    IN  Bind(GenerateBody(outcome), Handle)

\* A guard that only looks for the "{"
HasJsonObject_StartOnly(json_start, json_end) == json_start >= 0

\* The guard of the slice: a "{" was found and the last "}" lies after it
HasJsonObject(json_start, json_end) == json_start >= 0 /\ json_end > json_start

\* The start of every operation's try block: call the model, slice from the first "{"
\* to the last "}" and parse the slice.  found is FALSE on the else branch.
ExtractJson(outcome) ==
    LET Loaded(l) == [exc |-> l.exc, found |-> TRUE, ret |-> l.ret]
        Parse(g) ==
            IF g.exc # "none" THEN [exc |-> g.exc, found |-> FALSE, ret |-> PyNone]
            ELSE IF g.ret.t # "str"
            THEN [exc |-> "AttributeError", found |-> FALSE, ret |-> PyNone]
            ELSE LET response == g.ret.s
                     json_start == Find(response, "{")
                     json_end == RFind(response, "}") + 1
                 IN  IF HasJsonObject(json_start, json_end)
                     THEN Bind(JsonLoads(Slice(response, json_start, json_end)), Loaded)
                     ELSE [exc |-> "none", found |-> FALSE, ret |-> PyNone]
    IN  Bind(Generate(outcome), Parse)

\* What an operation hands back: the value, the branch that produced it, and the
\* exception that left the operation (raised) when no handler took it.
Returned(branch, ret) == [raised |-> FALSE, exc |-> "none", branch |-> branch, ret |-> ret]
Raised(exc) == [raised |-> TRUE, exc |-> exc, branch |-> "raised", ret |-> PyNone]

\* The assessment both fallbacks of evaluate_ocr_quality return
AssessmentFallback(confidence, issue) ==
    PyDict(<<"quality_score", "is_recipe_content", "detected_issues", "recommended_action">>,
           <<PyFloat(confidence), PyBool(TRUE), PyList(<<PyStr(issue)>>), PyStr(<<"use_result">>)>>)

\* evaluate_ocr_quality(text, confidence)
evaluate_ocr_quality(outcome, confidence) ==
    LET Try(b) ==
            IF b.exc # "none"
            THEN IF ExceptException(b.exc)
                 THEN Returned("except",
                               AssessmentFallback(confidence,
                                                  <<"Error:">> \o ErrorText(b.exc, <<>>)))
                 ELSE Raised(b.exc)
            ELSE IF b.found THEN Returned("parsed", b.ret)
            ELSE Returned("fallback",
                          AssessmentFallback(confidence, <<"Failed to parse LLM response">>))
    IN  Bind(ExtractJson(outcome), Try)

\* ---- the Recipe model (pydantic, lax mode)

NotesPrefixLen == 100

IsStr(v) == v.t = "str"
IsListOfStr(v) == v.t = "list" /\ \A i \in 1..Len(v.items) : IsStr(v.items[i])
\* Optional[int]: None, an int, a bool, or a string that reads as an int
IsOptionalInt(v) == v.t \in {"None", "int", "bool"} \/ (v.t = "str" /\ v.s = <<"1">>)
IsOptionalStr(v) == v.t \in {"None", "str"}
\* Ingredient: name is required, the other fields are optional
IsIngredient(v) ==
    /\ v.t = "dict"
    /\ HasKey(v, "name")
    /\ IsStr(GetKey(v, "name"))
\* List[Union[str, Ingredient]]
IsIngredients(v) ==
    v.t = "list" /\ \A i \in 1..Len(v.items) : IsStr(v.items[i]) \/ IsIngredient(v.items[i])

RecipeOf(title, ingredients, instructions, meal_types, prep, cook, servings, tags, dietary, notes) ==
    [title |-> title, ingredients |-> ingredients, instructions |-> instructions,
     meal_types |-> meal_types, prep_time_minutes |-> prep, cook_time_minutes |-> cook,
     servings |-> servings, tags |-> tags, dietary_restrictions |-> dietary,
     notes |-> notes, source_file |-> PyNone]

\* Recipe(...) validates its fields and raises ValidationError
RecipeValid(r) ==
    /\ IsStr(r.title)
    /\ IsIngredients(r.ingredients)
    /\ IsListOfStr(r.instructions)
    /\ IsListOfStr(r.meal_types)
    /\ IsOptionalInt(r.prep_time_minutes)
    /\ IsOptionalInt(r.cook_time_minutes)
    /\ IsOptionalInt(r.servings)
    /\ IsListOfStr(r.tags)
    /\ IsListOfStr(r.dietary_restrictions)
    /\ IsOptionalStr(r.notes)

\* f"Original text: {text[:100]}..."
OriginalTextNote(text) ==
    PyStr(<<"Original text:">> \o Slice(text, 0, NotesPrefixLen) \o <<"...">>)

\* The placeholder recipes of structure_recipe
PlaceholderRecipe(title, ingredient, instruction, text) ==
    RecipeOf(PyStr(<<title>>), PyList(<<PyStr(<<ingredient>>)>>), PyList(<<PyStr(instruction)>>),
             PyList(<<>>), PyNone, PyNone, PyNone, PyList(<<>>), PyList(<<>>),
             OriginalTextNote(text))

\* The recipe built from the parsed object
RecipeFromData(recipe_data, user_notes) ==
    RecipeOf(DictGet(recipe_data, "title", PyStr(<<"Untitled Recipe">>)),
             DictGet(recipe_data, "ingredients", PyList(<<>>)),
             DictGet(recipe_data, "instructions", PyList(<<>>)),
             DictGet(recipe_data, "meal_types", PyList(<<>>)),
             DictGet(recipe_data, "prep_time_minutes", PyNone),
             DictGet(recipe_data, "cook_time_minutes", PyNone),
             DictGet(recipe_data, "servings", PyNone),
             DictGet(recipe_data, "tags", PyList(<<>>)),
             DictGet(recipe_data, "dietary_restrictions", PyList(<<>>)),
             user_notes)

\* structure_recipe(text, user_notes)
structure_recipe(outcome, text, notes) ==
    LET Handle(exc) ==
            IF ExceptException(exc)
            THEN Returned("except",
                          PlaceholderRecipe("Extraction Error", "Extraction error",
                                            <<"Error:">> \o ErrorText(exc, <<>>), text))
            ELSE Raised(exc)
        Build(recipe) ==
            IF RecipeValid(recipe) THEN Returned("parsed", recipe)
            ELSE Handle("ValidationError")
        Try(b) ==
            IF b.exc # "none" THEN Handle(b.exc)
            ELSE IF b.found THEN Bind(RecipeFromData(b.ret, notes), Build)
            ELSE Returned("fallback",
                          PlaceholderRecipe("Extraction Failed", "Extraction failed",
                                            <<"Could not extract recipe from text">>, text))
    IN  Bind(ExtractJson(outcome), Try)

\* The {error, message} pair of generate_meal_plan
MealPlanError(error) ==
    PyDict(<<"error", "message">>, <<PyStr(error), PyStr(<<"Could not generate meal plan">>)>>)

\* generate_meal_plan(user_preferences, available_recipes, nutrition_goal, days):
\* the try block; the arguments only reach the prompt
generate_meal_plan(outcome) ==
    LET Try(b) ==
            IF b.exc # "none"
            THEN IF ExceptException(b.exc)
                 THEN Returned("except", MealPlanError(ErrorText(b.exc, <<>>)))
                 ELSE Raised(b.exc)
            ELSE IF b.found THEN Returned("parsed", b.ret)
            ELSE Returned("fallback", MealPlanError(<<"Failed to parse LLM response">>))
    IN  Bind(ExtractJson(outcome), Try)

NutritionFields == <<"calories", "protein_grams", "carbs_grams", "fat_grams",
                     "fiber_grams", "sugar_grams", "sodium_mg", "cholesterol_mg">>

\* The all-null nutrition of analyze_nutrition
NutritionNulls == PyDict(NutritionFields, [i \in 1..Len(NutritionFields) |-> PyNone])

\* analyze_nutrition(recipe): the try block; the recipe only reaches the prompt
analyze_nutrition(outcome) ==
    LET Try(b) ==
            IF b.exc # "none"
            THEN IF ExceptException(b.exc) THEN Returned("except", NutritionNulls)
                 ELSE Raised(b.exc)
            ELSE IF b.found THEN Returned("parsed", b.ret)
            ELSE Returned("fallback", NutritionNulls)
    IN  Bind(ExtractJson(outcome), Try)

\* ---------------------------------------------------------------- inputs

\* Prose around the body of a response: a word, or a stray brace
PadLexemes == {"x", "{", "}"}
SeqsUpTo(S, n) == UNION {[1..k -> S] : k \in 0..n}
PadPairs == {p \in SeqsUpTo(PadLexemes, MaxPad) \X SeqsUpTo(PadLexemes, MaxPad) :
                Len(p[1]) + Len(p[2]) <= MaxPad}

\* Well-formed JSON objects a model may answer with
JsonBodies ==
    { <<"{", "}">>,
      <<"{", "detected_issues", "null", "}">>,
      <<"{", "detected_issues", "[", "]", "}">>,
      <<"{", "detected_issues", "[", "1", "]", "}">>,
      <<"{", "detected_issues", Quote, "a", "b", Quote, "}">>,
      <<"{", "quality_score", "1", ",", "is_recipe_content", "false", ",",
        "detected_issues", "[", Quote, "blurry", Quote, ",", Quote, "cropped", Quote, "]", ",",
        "recommended_action", Quote, "retry_with_different_engine", Quote, "}">>,
      <<"{", "title", Quote, "Soup", Quote, ",", "ingredients", "[", Quote, "water", Quote, "]",
        ",", "instructions", "[", Quote, "boil", Quote, "]", "}">>,
      <<"{", "title", "null", "}">>,
      <<"{", "title", Quote, "a", "}", "b", Quote, "}">>,
      <<"{", "ingredients", "[", "{", "name", Quote, "salt", Quote, "}", "]", ",",
        "servings", "1", "}">>,
      <<"{", "error", Quote, "boom", Quote, "}">>,
      <<"{", "days", "[", "{", "}", "]", "}">>,
      <<"{", "calories", "1", "}">> }

\* Text that holds no well-formed object
OtherBodies ==
    { <<>>,
      <<"x">>,
      <<"}", "{">>,
      <<"{", "title", "}">>,
      <<"{", "title", Quote, "x">> }

Bodies == JsonBodies \cup OtherBodies

\* Every outcome of one call of the model
Outcomes ==
    {Outcome("ok", p[1], b, p[2]) : p \in PadPairs, b \in Bodies}
    \cup {Outcome(k, <<>>, b, <<>>) : k \in {"status", "raise"}, b \in Bodies}
    \cup {Outcome(k, <<>>, <<>>, <<>>) : k \in {"nokey", "nonstr"}}

\* Confidences an engine reports, in percent
Confidences == {0, 30, 50, 70}

\* An engine's result: a failed extraction has no text and confidence 0
EngineResult(engine_used, text, confidence) ==
    [text |-> IF confidence = 0 THEN <<>> ELSE <<text>>,
     confidence |-> confidence, engine_used |-> engine_used]
PrimaryResults == {EngineResult("pymupdf", "primary text", c) : c \in Confidences}
FallbackResults == {EngineResult("marker", "fallback text", c) : c \in Confidences}

UserNotes == {PyNone, PyStr(<<"less salt">>)}

\* ---- what a recipes directory holds

\* The identifiers of the recipes handled; a file is named after its recipe's identifier
MaxRecipes == 2
RecipeIds == 1..MaxRecipes

\* A recipe as the storage and the search see it: text is a sequence of characters
StoredRecipe(title, ingredients, tags) ==
    RecipeOf(PyStr(title), PyList(ingredients), PyList(<<>>), PyList(<<>>),
             PyNone, PyNone, PyNone, PyList(tags), PyList(<<>>), PyNone)

\* Ingredient(name=...)
IngredientNamed(name) == PyDict(<<"name">>, <<PyStr(name)>>)

PastaCarbonara ==
    StoredRecipe(<<"P", "a", "s", "t", "a">>, <<PyStr(<<"E", "g", "g", "s">>)>>, <<>>)
TomatoSoup ==
    StoredRecipe(<<"S", "o", "u", "p">>, <<PyStr(<<"p", "a", "s", "t", "a">>)>>,
                 <<PyStr(<<"P", "a", "s", "t", "a">>)>>)
GreenSalad ==
    StoredRecipe(<<"S", "a", "l", "a", "d">>,
                 <<PyStr(<<"O", "i", "l">>), IngredientNamed(<<"S", "P", "A", "g", "h">>)>>,
                 <<>>)
AvocadoToast ==
    StoredRecipe(<<"T", "o", "a", "s", "t">>, <<PyStr(<<"B", "r", "e", "a", "d">>)>>,
                 <<PyStr(<<"q", "u", "i", "c", "k">>)>>)
LunchWrap ==
    StoredRecipe(<<"W", "r", "a", "p">>, <<>>,
                 <<PyStr(<<"c", "o", "l", "d">>), PyStr(<<"P", "A", "S", "T", "A">>)>>)
PastaBake ==
    StoredRecipe(<<"p", "a", "s", "t", "a", " ", "b", "a", "k", "e">>,
                 <<PyStr(<<"p", "a", "s", "t", "a">>)>>, <<PyStr(<<"p", "a", "s", "t", "a">>)>>)

StoredRecipes == {PastaCarbonara, TomatoSoup, GreenSalad, AvocadoToast, LunchWrap, PastaBake}

\* The content of a file: a recipe as save_to_file wrote it, or something that does
\* not load as a recipe
RecipeFile(recipe) == [corrupt |-> FALSE, recipe |-> recipe]
CorruptFile == [corrupt |-> TRUE, recipe |-> PyNone]

\* The directory the service is constructed on: empty, or holding a file left there
\* that is no recipe
EmptyDir == <<>>
InitialDirs == {EmptyDir, [id \in {1} |-> CorruptFile]}

\* The text of a file that holds no JSON value
CorruptText == <<"{">>

\* The save_recipe calls that run side by side, and the identifier they all save
MaxSavers == 2
Savers == 1..MaxSavers
SharedId == 1

Queries == {<<"p", "a">>, <<"P", "A">>, <<>>}
DefaultLimit == 100
Limits == {1, 2, DefaultLimit}

\* ---- what a meal-plan call is given

\* datetime.date(y, m, d)
Date(y, m, d) == [t |-> "date", y |-> y, m |-> m, d |-> d]

\* Dates around a leap day, a year's end and a Monday-to-Sunday week
PlanDates == {Date(2023, 12, 31), Date(2024, 1, 1), Date(2024, 2, 28), Date(2024, 2, 29),
              Date(2024, 3, 1), Date(2025, 2, 28), Date(2025, 3, 1), Date(2025, 6, 2),
              Date(2025, 6, 8)}

\* Dates as 'YYYY-MM-DD' text
DateTexts == {PyStr(<<"2025-06-01">>), PyStr(<<"2025-06-07">>)}

Preferences == {PyDict(<<>>, <<>>),
                PyDict(<<"favorite_cuisines">>, <<PyList(<<PyStr(<<"Italian">>)>>)>>)}
NutritionGoals == {PyNone, PyStr(<<"weight_loss">>)}

\* Objects a model may answer a meal-plan prompt with
PlanBodies ==
    { <<"{", "days", "[", "{", "date", Quote, "2025-06-02", Quote, "}", "]", ",",
        "grocery_items", "[", "{", "name", Quote, "eggs", Quote, ",", "quantity", "1", "}", "]",
        "}">>,
      <<"{", "days", "[", "]", ",", "grocery_items", "[", "]", "}">>,
      <<"{", "days", "[", "]", ",", "grocery_items", "[", "]", ",",
        "nutrition_summary", "[", "]", "}">>,
      <<"{", "error", Quote, "boom", Quote, "}">>,
      <<"{", "error", Quote, "boom", Quote, ",", "message", Quote, "later", Quote, "}">>,
      <<"{", "days", "[", "]", "}">>,
      <<"{", "days", "[", "{", "}", "]", ",", "grocery_items", "[", "]", "}">>,
      <<"{", "days", "[", "]", ",", "grocery_items", "[", "{", "name", Quote, "eggs", Quote,
        "}", "]", "}">>,
      <<"{", "}">>,
      <<"x">> }

\* What the transport does during a meal-plan call
PlanOutcomes ==
    {Outcome("ok", <<>>, b, <<>>) : b \in PlanBodies}
    \cup {Outcome("raise", <<>>, <<"x">>, <<>>), Outcome("nonstr", <<>>, <<>>, <<>>)}

\* ------------------------------------------------- RecipeExtractionService

VARIABLES
    hasFallback,         \* self.ocr_fallback is not None
    pc,                  \* where extract_recipe stands: the call it awaits, or its end
    user_notes,          \* the argument of the run
    primary_result,      \* what the primary engine returned
    fallback_result,     \* what the fallback engine returned
    ocr_result,          \* the chosen OCR result
    warnings,            \* the warnings list
    quality_assessment,  \* what evaluate_ocr_quality returned
    response,            \* the RecipeExtractionResponse returned
    exception,           \* the exception that ended the run
    calls,               \* the collaborator calls of the run, in the order they started
    lastCall,            \* a provider operation called on its own, and its result
    recipes_dir,         \* the files of self.recipes_dir: identifier -> content
    lastStorage,         \* the last RecipeStorageService operation and what it returned
    meal_plans_db,       \* the router's meal_plans_db: identifier -> MealPlan
    grocery_lists_db,    \* the router's grocery_lists_db: identifier -> GroceryList
    lastPlan,            \* the last meal-plan call or request and how it ended
    uuids,               \* how many identifiers uuid4 has handed out
    file_texts,          \* the files of the recipes directory as text: name -> lexemes
    now,                 \* what time.time() returns
    lastRecipe,          \* the last operation on the recipe files and how it ended
    savers,              \* the save_recipe calls that run side by side: where each stands
    finished,            \* the savers that have returned, in the order they did
    lastOcr,             \* the last extract_text call of an OCR engine and what it returned
    db_recipes,          \* the recipes table: the row of each id
    db_ratings,          \* the recipe_ratings table: the row of each user and recipe
    lastDb,              \* the last call to a database service
    users_db,            \* the users the router holds, by the text of their id
    lastUser             \* the last request to the users router

vars == <<hasFallback, pc, user_notes, primary_result, fallback_result, ocr_result,
          warnings, quality_assessment, response, exception, calls, lastCall,
          recipes_dir, lastStorage, meal_plans_db, grocery_lists_db, lastPlan, uuids,
          file_texts, now, lastRecipe, savers, finished,
          lastOcr,
          db_recipes, db_ratings, lastDb,
          users_db, lastUser>>

storageVars == <<recipes_dir, lastStorage>>
mealPlanVars == <<meal_plans_db, grocery_lists_db, lastPlan, uuids>>
recipeFileVars == <<file_texts, now, lastRecipe>>

saverVars == <<savers, finished>>
ocrVars == <<lastOcr>>

\* The variables of the parts that come after the meal plans
dbVars == <<db_recipes, db_ratings, lastDb>>
userVars == <<users_db, lastUser>>
laterVars == <<recipeFileVars, saverVars, ocrVars, dbVars, userVars>>

NoResult == [text |-> <<>>, confidence |-> -1, engine_used |-> "none"]
NoResponse == [set |-> FALSE]
NoCall == [op |-> "none"]

Call(callee, text) == [callee |-> callee, text |-> text, done |-> FALSE]

\* A call started as a task and not awaited: it has not returned when the code goes on
ReturnCall_NotAwaited(cs) == cs

\* await: the call that was awaited has returned when the code goes on
ReturnCall(cs) == [cs EXCEPT ![Len(cs)].done = TRUE]

\* The threshold taken inclusively
NeedsFallback_AtMost(result, fallback) == result.confidence <= 50 /\ fallback

\* if ocr_result.confidence < 0.5 and self.ocr_fallback is not None
NeedsFallback(result, fallback) == result.confidence < 50 /\ fallback

\* The comparison taken inclusively: a tie goes to the fallback
UseFallback_OrEqual(fallback, primary) == fallback.confidence >= primary.confidence

\* if fallback_result.confidence > ocr_result.confidence
UseFallback(fallback, primary) == fallback.confidence > primary.confidence

LowConfidenceWarning ==
    PyStr(<<"Primary OCR engine produced low confidence result. Trying fallback engine.">>)
UsingFallbackWarning == PyStr(<<"Using fallback OCR engine">>)
FallbackLowerWarning ==
    PyStr(<<"Fallback OCR engine produced lower confidence result. Using primary OCR result.">>)

\* The same warning on both branches
ChoiceWarning_AlwaysUsing(fallback, primary) ==
    PyStr(<<"Using fallback OCR engine">>)

\* The warning the comparison of the two results appends
ChoiceWarning(fallback, primary) ==
    IF UseFallback(fallback, primary) THEN UsingFallbackWarning ELSE FallbackLowerWarning

\* The issues put in front of the warnings
Extend_Prepend(list, v) ==
    CASE v.t = "list" -> [exc |-> "none", ret |-> v.items \o list]
      [] v.t = "str" -> [exc |-> "none", ret |-> [i \in 1..Len(v.s) |-> PyStr(<<v.s[i]>>)] \o list]
      [] v.t = "dict" ->
            [exc |-> "none", ret |-> [i \in 1..Len(v.keys) |-> PyStr(<<v.keys[i]>>)] \o list]
      [] OTHER -> [exc |-> "TypeError", ret |-> list]

\* list.extend(v): the items of a list, the characters of a str, the keys of a dict;
\* TypeError for a value that is not iterable
Extend(list, v) ==
    CASE v.t = "list" -> [exc |-> "none", ret |-> list \o v.items]
      [] v.t = "str" -> [exc |-> "none", ret |-> list \o [i \in 1..Len(v.s) |-> PyStr(<<v.s[i]>>)]]
      [] v.t = "dict" ->
            [exc |-> "none", ret |-> list \o [i \in 1..Len(v.keys) |-> PyStr(<<v.keys[i]>>)]]
      [] OTHER -> [exc |-> "TypeError", ret |-> list]

\* RecipeExtractionResponse(...): warnings is a List[str]
ResponseValid(ws) == \A i \in 1..Len(ws) : IsStr(ws[i])

Init ==
    /\ hasFallback \in BOOLEAN
    /\ pc = "idle"
    /\ user_notes = PyNone
    /\ primary_result = NoResult
    /\ fallback_result = NoResult
    /\ ocr_result = NoResult
    /\ warnings = <<>>
    /\ quality_assessment = PyNone
    /\ response = NoResponse
    /\ exception = "none"
    /\ calls = <<>>
    /\ lastCall = NoCall
    /\ recipes_dir \in InitialDirs
    /\ lastStorage = NoCall
    /\ meal_plans_db = <<>>
    /\ grocery_lists_db = <<>>
    /\ lastPlan = NoCall
    /\ uuids = 0
    /\ file_texts = [f \in DOMAIN recipes_dir |-> CorruptText]
    /\ now = 0
    /\ lastRecipe = NoCall
    /\ savers = [w \in Savers |-> [pc |-> "idle"]]
    /\ finished = <<>>
    /\ lastOcr = NoCall
    /\ db_recipes = <<>>
    /\ db_ratings = <<>>
    /\ lastDb = NoCall
    /\ users_db = <<>>
    /\ lastUser = NoCall

\* extract_recipe is called: up to the await of the primary engine
StartExtraction(notes) ==
    /\ pc \in {"idle", "done", "raised"}
    /\ pc' = "await_primary"
    /\ user_notes' = notes
    /\ primary_result' = NoResult
    /\ fallback_result' = NoResult
    /\ ocr_result' = NoResult
    /\ warnings' = <<>>
    /\ quality_assessment' = PyNone
    /\ response' = NoResponse
    /\ exception' = "none"
    /\ calls' = <<Call("ocr_primary.extract_text", <<>>)>>
    /\ UNCHANGED <<hasFallback, lastCall>>
    /\ UNCHANGED <<storageVars, mealPlanVars, laterVars>>

\* The primary engine returns: up to the await of the fallback engine, or of
\* evaluate_ocr_quality when the fallback is not tried
PrimaryReturns(result) ==
    /\ pc = "await_primary"
    /\ primary_result' = result
    /\ ocr_result' = result
    /\ IF NeedsFallback(result, hasFallback)
       THEN /\ warnings' = Append(warnings, LowConfidenceWarning)
            /\ calls' = Append(ReturnCall(calls), Call("ocr_fallback.extract_text", <<>>))
            /\ pc' = "await_fallback"
       ELSE /\ warnings' = warnings
            /\ calls' = Append(ReturnCall(calls),
                               Call("llm_provider.evaluate_ocr_quality", result.text))
            /\ pc' = "await_quality"
    /\ UNCHANGED <<hasFallback, user_notes, fallback_result, quality_assessment, response,
                   exception, lastCall>>
    /\ UNCHANGED <<storageVars, mealPlanVars, laterVars>>

\* The fallback engine returns: the choice between the two results, up to the await
\* of evaluate_ocr_quality
FallbackReturns(result) ==
    /\ pc = "await_fallback"
    /\ fallback_result' = result
    /\ warnings' = Append(warnings, ChoiceWarning(result, ocr_result))
    /\ ocr_result' = IF UseFallback(result, ocr_result) THEN result ELSE ocr_result
    /\ calls' = Append(ReturnCall(calls),
                       Call("llm_provider.evaluate_ocr_quality", ocr_result'.text))
    /\ pc' = "await_quality"
    /\ UNCHANGED <<hasFallback, user_notes, primary_result, quality_assessment, response,
                   exception, lastCall>>
    /\ UNCHANGED <<storageVars, mealPlanVars, laterVars>>

\* evaluate_ocr_quality returns: its issues are appended, up to the await of
\* structure_recipe; the run ends when extend raises
QualityReturns(outcome) ==
    /\ pc = "await_quality"
    /\ \E r \in {evaluate_ocr_quality(outcome, ocr_result.confidence)} :
       \E ext \in {IF ~r.raised /\ HasKey(r.ret, "detected_issues")
                   THEN Extend(warnings, GetKey(r.ret, "detected_issues"))
                   ELSE [exc |-> "none", ret |-> warnings]} :
       \E exc \in {IF r.raised THEN r.exc ELSE ext.exc} :
           /\ quality_assessment' = r.ret
           /\ warnings' = ext.ret
           /\ exception' = exc
           /\ IF exc = "none"
              THEN /\ calls' = Append(ReturnCall(calls),
                                      Call("llm_provider.structure_recipe", ocr_result.text))
                   /\ pc' = "await_structure"
              ELSE /\ calls' = ReturnCall(calls)
                   /\ pc' = "raised"
    /\ UNCHANGED <<hasFallback, user_notes, primary_result, fallback_result, ocr_result,
                   response, lastCall>>
    /\ UNCHANGED <<storageVars, mealPlanVars, laterVars>>

\* structure_recipe returns: the response is built and returned; the run ends with
\* ValidationError when the response does not validate
StructureReturns(outcome) ==
    /\ pc = "await_structure"
    /\ \E r \in {structure_recipe(outcome, ocr_result.text, user_notes)} :
       \E exc \in {IF r.raised THEN r.exc
                   ELSE IF ~ResponseValid(warnings) THEN "ValidationError"
                   ELSE "none"} :
           /\ exception' = exc
           /\ calls' = ReturnCall(calls)
           /\ IF exc = "none"
              THEN /\ response' = [set |-> TRUE,
                                   recipe |-> [r.ret EXCEPT !.source_file = PyStr(<<"file_path">>)],
                                   ocr_result |-> ocr_result,
                                   warnings |-> warnings]
                   /\ pc' = "done"
              ELSE /\ response' = NoResponse
                   /\ pc' = "raised"
    /\ UNCHANGED <<hasFallback, user_notes, primary_result, fallback_result, ocr_result,
                   warnings, quality_assessment, lastCall>>
    /\ UNCHANGED <<storageVars, mealPlanVars, laterVars>>

Next ==
    \/ \E notes \in UserNotes : StartExtraction(notes)
    \/ \E result \in PrimaryResults : PrimaryReturns(result)
    \/ \E result \in FallbackResults : FallbackReturns(result)
    \/ \E outcome \in Outcomes : QualityReturns(outcome)
    \/ \E outcome \in Outcomes : StructureReturns(outcome)

Spec == Init /\ [][Next]_vars

\* ------------------------------------------- provider operations on their own

extractionVars == <<hasFallback, pc, user_notes, primary_result, fallback_result, ocr_result,
                    warnings, quality_assessment, response, exception, calls>>

SourceTexts == {<<>>, <<"primary text">>}

\* One call of a provider operation, made once per behaviour
ProviderCall(op, outcome, confidence, text, notes, result) ==
    [op |-> op, outcome |-> outcome, confidence |-> confidence, text |-> text,
     notes |-> notes, result |-> result]

CallEvaluateOcrQuality(outcome, confidence) ==
    /\ lastCall = NoCall
    /\ lastCall' = ProviderCall("evaluate_ocr_quality", outcome, confidence, <<>>, PyNone,
                                evaluate_ocr_quality(outcome, confidence))
    /\ UNCHANGED <<extractionVars, storageVars, mealPlanVars, laterVars>>

CallStructureRecipe(outcome, text, notes) ==
    /\ lastCall = NoCall
    /\ lastCall' = ProviderCall("structure_recipe", outcome, 0, text, notes,
                                structure_recipe(outcome, text, notes))
    /\ UNCHANGED <<extractionVars, storageVars, mealPlanVars, laterVars>>

CallGenerateMealPlan(outcome) ==
    /\ lastCall = NoCall
    /\ lastCall' = ProviderCall("generate_meal_plan", outcome, 0, <<>>, PyNone,
                                generate_meal_plan(outcome))
    /\ UNCHANGED <<extractionVars, storageVars, mealPlanVars, laterVars>>

CallAnalyzeNutrition(outcome) ==
    /\ lastCall = NoCall
    /\ lastCall' = ProviderCall("analyze_nutrition", outcome, 0, <<>>, PyNone,
                                analyze_nutrition(outcome))
    /\ UNCHANGED <<extractionVars, storageVars, mealPlanVars, laterVars>>

ProviderNext ==
    \/ \E outcome \in Outcomes, c \in Confidences : CallEvaluateOcrQuality(outcome, c)
    \/ \E outcome \in Outcomes, text \in SourceTexts, notes \in UserNotes :
          CallStructureRecipe(outcome, text, notes)
    \/ \E outcome \in Outcomes : CallGenerateMealPlan(outcome)
    \/ \E outcome \in Outcomes : CallAnalyzeNutrition(outcome)

SpecProvider == Init /\ [][ProviderNext]_vars

\* ------------------------------------------------------ RecipeStorageService

UpperLetters == <<"A", "B", "C", "D", "E", "F", "G", "H", "I", "J", "K", "L", "M",
                  "N", "O", "P", "Q", "R", "S", "T", "U", "V", "W", "X", "Y", "Z">>
LowerLetters == <<"a", "b", "c", "d", "e", "f", "g", "h", "i", "j", "k", "l", "m",
                  "n", "o", "p", "q", "r", "s", "t", "u", "v", "w", "x", "y", "z">>

\* str.lower()
LowerChar(c) ==
    IF \E i \in DOMAIN UpperLetters : UpperLetters[i] = c
    THEN LowerLetters[CHOOSE i \in DOMAIN UpperLetters : UpperLetters[i] = c]
    ELSE c
Lower(s) == [i \in 1..Len(s) |-> LowerChar(s[i])]

\* query in s
Contains(s, query) ==
    \E i \in 0..(Len(s) - Len(query)) : SubSeq(s, i + 1, i + Len(query)) = query

\* sorted(glob.glob(str(self.recipes_dir / "*.json"))): the files in the order of
\* their names
RECURSIVE SortedFiles(_)
SortedFiles(ids) ==
    IF ids = {} THEN <<>>
    ELSE <<SetMin(ids)>> \o SortedFiles(ids \ {SetMin(ids)})

\* Recipe.load_from_file raises on a file that holds no recipe
LoadFromFile(dir, id) ==
    IF dir[id].corrupt THEN [exc |-> "ValidationError", ret |-> PyNone]
    ELSE [exc |-> "none", ret |-> [id |-> id, recipe |-> dir[id].recipe]]

\* The loading loop of list_recipes: a file that does not load is skipped
RECURSIVE LoadAll(_, _)
LoadAll(dir, recipe_files) ==
    IF recipe_files = <<>> THEN <<>>
    ELSE LET Step(l) == (IF l.exc = "none" THEN <<l.ret>> ELSE <<>>)
                            \o LoadAll(dir, Tail(recipe_files))
         IN  Bind(LoadFromFile(dir, Head(recipe_files)), Step)

\* list_recipes(limit, offset)
list_recipes(dir, limit, offset) ==
    LoadAll(dir, Slice(SortedFiles(DOMAIN dir), offset, offset + limit))

\* if query in recipe.title.lower()
TitleMatches(recipe, query) == Contains(Lower(recipe.title.s), query)

\* The two tests of the ingredient loop: a string, or an object with a name
IngredientMatches(ingredient, query) ==
    \/ ingredient.t = "str" /\ Contains(Lower(ingredient.s), query)
    \/ /\ ingredient.t = "dict"
       /\ HasKey(ingredient, "name")
       /\ Contains(Lower(GetKey(ingredient, "name").s), query)

\* if query in tag.lower()
TagMatches(tag, query) == Contains(Lower(tag.s), query)

\* What one pass of the search loop appends for a recipe: the title match ends the
\* pass (continue); a matching ingredient ends the ingredient loop (break) and a
\* matching tag ends the tag loop (break)
Appended(loaded, query) ==
    LET recipe == loaded.recipe
    IN  IF TitleMatches(recipe, query) THEN <<loaded>>
        ELSE (IF \E i \in 1..Len(recipe.ingredients.items) :
                     IngredientMatches(recipe.ingredients.items[i], query)
              THEN <<loaded>> ELSE <<>>)
             \o (IF \E i \in 1..Len(recipe.tags.items) :
                        TagMatches(recipe.tags.items[i], query)
                 THEN <<loaded>> ELSE <<>>)

\* The search loop over all_recipes
RECURSIVE MatchingRecipes(_, _)
MatchingRecipes(all_recipes, query) ==
    IF all_recipes = <<>> THEN <<>>
    ELSE Appended(Head(all_recipes), query) \o MatchingRecipes(Tail(all_recipes), query)

\* all_recipes = self.list_recipes(limit=1000)
ScanLimit == 1000

\* search_recipes(query, limit)
search_recipes(dir, query, limit) ==
    Slice(MatchingRecipes(list_recipes(dir, ScanLimit, 0), Lower(query)), 0, limit)

\* save_to_file: the file named after the identifier is written, or written anew
save_recipe(dir, id, recipe) ==
    [i \in DOMAIN dir \cup {id} |-> IF i = id THEN RecipeFile(recipe) ELSE dir[i]]

\* A delete that does not look whether the file exists
delete_recipe_Unchecked(dir, id, removable) ==
    [ret |-> removable, dir |-> [i \in DOMAIN dir \ {id} |-> dir[i]]]

\* delete_recipe(recipe_id); removable tells whether os.remove succeeds
delete_recipe(dir, id, removable) ==
    IF id \notin DOMAIN dir THEN [ret |-> FALSE, dir |-> dir]
    ELSE IF removable THEN [ret |-> TRUE, dir |-> [i \in DOMAIN dir \ {id} |-> dir[i]]]
    ELSE [ret |-> FALSE, dir |-> dir]

otherThanStorage == <<extractionVars, lastCall, mealPlanVars, laterVars>>

SaveRecipe(id, recipe) ==
    /\ recipes_dir' = save_recipe(recipes_dir, id, recipe)
    /\ lastStorage' = [op |-> "save_recipe", id |-> id]
    /\ UNCHANGED otherThanStorage

DeleteRecipe(id, removable) ==
    /\ \E r \in {delete_recipe(recipes_dir, id, removable)} :
          /\ recipes_dir' = r.dir
          /\ lastStorage' = [op |-> "delete_recipe", id |-> id, removable |-> removable,
                             ret |-> r.ret]
    /\ UNCHANGED otherThanStorage

SearchRecipes(query, limit) ==
    /\ lastStorage' = [op |-> "search_recipes", query |-> query, limit |-> limit,
                       ret |-> search_recipes(recipes_dir, query, limit)]
    /\ UNCHANGED <<recipes_dir, otherThanStorage>>

StorageNext ==
    \/ \E id \in RecipeIds, recipe \in StoredRecipes : SaveRecipe(id, recipe)
    \/ \E id \in RecipeIds, removable \in BOOLEAN : DeleteRecipe(id, removable)
    \/ \E query \in Queries, limit \in Limits : SearchRecipes(query, limit)

SpecStorage == Init /\ [][StorageNext]_vars

\* ----------------------------------------------------------- MealPlanService

\* The proleptic Gregorian ordinal of a date, as datetime.date computes it
IsLeap(y) == y % 4 = 0 /\ (y % 100 # 0 \/ y % 400 = 0)
DaysInMonth(y, m) ==
    IF m = 2 THEN (IF IsLeap(y) THEN 29 ELSE 28)
    ELSE IF m \in {4, 6, 9, 11} THEN 30 ELSE 31
RECURSIVE DaysBeforeMonth(_, _)
DaysBeforeMonth(y, m) ==
    IF m = 1 THEN 0 ELSE DaysBeforeMonth(y, m - 1) + DaysInMonth(y, m - 1)
DaysBeforeYear(y) == (y - 1) * 365 + (y - 1) \div 4 - (y - 1) \div 100 + (y - 1) \div 400
ToOrdinal(date) == DaysBeforeYear(date.y) + DaysBeforeMonth(date.y, date.m) + date.d

\* (end_date - start_date).days: defined for two dates, TypeError for text
TimedeltaDays(end_date, start_date) ==
    IF end_date.t = "date" /\ start_date.t = "date"
    THEN [exc |-> "none", days |-> ToOrdinal(end_date) - ToOrdinal(start_date)]
    ELSE [exc |-> "TypeError", days |-> 0]

\* The day count taken without the last day
PlanDays_Exclusive(delta) == delta

\* days=(end_date - start_date).days + 1
PlanDays(delta) == delta + 1

\* A service that asks the provider whatever the store holds
NoneAvailable_Ignored(available_recipes) == FALSE

\* if not available_recipes
NoneAvailable(available_recipes) == available_recipes = <<>>

NoRecipesError ==
    PyDict(<<"error", "message">>,
           <<PyStr(<<"No recipes available for meal planning">>),
             PyStr(<<"Please add some recipes before generating a meal plan">>)>>)

\* available_recipes = self.recipe_storage.list_recipes(limit=1000)
AvailableLimit == 1000

\* A call of the provider's generate_meal_plan, with its keyword arguments
ProviderPlanCall(preferences, available_recipes, nutrition_goal, days) ==
    [user_preferences |-> preferences, available_recipes |-> available_recipes,
     nutrition_goal |-> nutrition_goal, days |-> days]

\* MealPlanService.generate_meal_plan(user_id, start_date, end_date, preferences,
\* nutrition_goal, budget_limit): what it returns or raises, and the calls of the
\* provider it made
MealPlanService_generate_meal_plan(dir, start_date, end_date, preferences, nutrition_goal, outcome) ==
    LET Plan(available_recipes) ==
            IF NoneAvailable(available_recipes)
            THEN [raised |-> FALSE, exc |-> "none", ret |-> NoRecipesError, calls |-> <<>>]
            ELSE LET Ask(delta) ==
                         IF delta.exc # "none"
                         THEN [raised |-> TRUE, exc |-> delta.exc, ret |-> PyNone,
                               calls |-> <<>>]
                         ELSE LET Answer(r) ==
                                      [raised |-> r.raised, exc |-> r.exc, ret |-> r.ret,
                                       calls |-> <<ProviderPlanCall(preferences,
                                                                    available_recipes,
                                                                    nutrition_goal,
                                                                    PlanDays(delta.days))>>]
                              IN  Bind(generate_meal_plan(outcome), Answer)
                 IN  Bind(TimedeltaDays(end_date, start_date), Ask)
    IN  Bind(list_recipes(dir, AvailableLimit, 0), Plan)

\* The dates a call of the service is given: two dates, or two texts
ServiceDates == (PlanDates \X PlanDates) \cup (DateTexts \X DateTexts)

\* What the provider meets during a call of the service: a plan, an error object of
\* the model, no object at all, a failed request
ServiceOutcomes ==
    {o \in PlanOutcomes :
        \/ o.kind = "raise"
        \/ o.body \in {<<"x">>, <<"{", "error", Quote, "boom", Quote, "}">>,
                        <<"{", "days", "[", "]", ",", "grocery_items", "[", "]", "}">>}}

otherThanPlans == <<extractionVars, lastCall, lastStorage, laterVars>>

\* A recipe is stored before a meal plan is asked for
StoreRecipe(id, recipe) ==
    /\ lastPlan = NoCall
    /\ recipes_dir' = save_recipe(recipes_dir, id, recipe)
    /\ UNCHANGED <<otherThanPlans, mealPlanVars>>

\* One call of MealPlanService.generate_meal_plan, made once per behaviour
CallServiceGenerateMealPlan(dates, preferences, nutrition_goal, outcome) ==
    /\ lastPlan = NoCall
    /\ lastPlan' = [op |-> "MealPlanService.generate_meal_plan",
                    start_date |-> dates[1], end_date |-> dates[2],
                    preferences |-> preferences, nutrition_goal |-> nutrition_goal,
                    outcome |-> outcome,
                    result |-> MealPlanService_generate_meal_plan(
                                   recipes_dir, dates[1], dates[2], preferences,
                                   nutrition_goal, outcome)]
    /\ UNCHANGED <<otherThanPlans, recipes_dir, meal_plans_db, grocery_lists_db, uuids>>

MealPlanServiceNext ==
    \/ \E id \in RecipeIds : StoreRecipe(id, PastaCarbonara)
    \/ \E dates \in ServiceDates, preferences \in Preferences,
          nutrition_goal \in NutritionGoals, outcome \in ServiceOutcomes :
          CallServiceGenerateMealPlan(dates, preferences, nutrition_goal, outcome)

SpecMealPlanService == Init /\ [][MealPlanServiceNext]_vars

\* ------------------------------------------------------- the meal-plans router

\* How many meal plans a behaviour creates
MaxPlans == 2

\* date: a date, or text that reads as one
IsDate(v) == v.t = "date" \/ (v.t = "str" /\ v.s = <<"2025-06-02">>)
\* Optional[Decimal]
IsOptionalDecimal(v) == v.t \in {"None", "int", "float"} \/ (v.t = "str" /\ v.s = <<"1">>)
\* float
IsFloat(v) == v.t \in {"int", "float", "bool"} \/ (v.t = "str" /\ v.s = <<"1">>)

\* MealPlanDay: date is required
IsMealPlanDay(v) == v.t = "dict" /\ HasKey(v, "date") /\ IsDate(GetKey(v, "date"))
\* GroceryItem: name and quantity are required
IsGroceryItem(v) ==
    /\ v.t = "dict"
    /\ HasKey(v, "name") /\ IsStr(GetKey(v, "name"))
    /\ HasKey(v, "quantity") /\ IsFloat(GetKey(v, "quantity"))

\* MealPlan(...) validates days and total_estimated_cost
MealPlanValid(days, total_cost) ==
    /\ days.t = "list"
    /\ \A i \in 1..Len(days.items) : IsMealPlanDay(days.items[i])
    /\ IsOptionalDecimal(total_cost)

\* GroceryList(...) validates items and total_estimated_cost
GroceryListValid(items, total_cost) ==
    /\ items.t = "list"
    /\ \A i \in 1..Len(items.items) : IsGroceryItem(items.items[i])
    /\ IsOptionalDecimal(total_cost)

\* MealPlanResponse(...) validates total_cost and nutrition_summary
MealPlanResponseValid(total_cost, nutrition_summary) ==
    IsOptionalDecimal(total_cost) /\ nutrition_summary.t = "dict"

MealPlan(id, start_date, end_date, days, nutrition_goal, total_cost) ==
    [id |-> id, start_date |-> start_date, end_date |-> end_date, days |-> days,
     nutrition_goal |-> nutrition_goal, total_estimated_cost |-> total_cost]

GroceryList(id, meal_plan_id, items, total_cost) ==
    [id |-> id, meal_plan_id |-> meal_plan_id, items |-> items,
     total_estimated_cost |-> total_cost]

\* db[key] = value
SetItem(db, key, value) == [k \in DOMAIN db \cup {key} |-> IF k = key THEN value ELSE db[k]]
\* del db[key], for each of the keys
DelItems(db, keys) == [k \in DOMAIN db \ keys |-> db[k]]

\* The body of POST /meal-plans after the service has returned meal_plan_data: the
\* status it answers with, the exception that ended it, and the stores it leaves.
\* The identifiers uuid4 gives the plan and the list are plan_id and list_id.
PostMealPlanBody(meal_plan_data, request, plans, lists, plan_id, list_id) ==
    LET Fails(status, exc) ==
            [status |-> status, exc |-> exc, plans |-> plans, lists |-> lists, stored |-> 0]
        total_cost == DictGet(meal_plan_data, "total_cost", PyNone)
    IN  IF HasKey(meal_plan_data, "error") THEN
            IF HasKey(meal_plan_data, "message") THEN Fails(400, "HTTPException")
            ELSE Fails(500, "KeyError")
        ELSE IF ~HasKey(meal_plan_data, "days") THEN Fails(500, "KeyError")
        ELSE IF ~MealPlanValid(GetKey(meal_plan_data, "days"), total_cost)
        THEN Fails(500, "ValidationError")
        ELSE IF ~HasKey(meal_plan_data, "grocery_items") THEN Fails(500, "KeyError")
        ELSE IF ~GroceryListValid(GetKey(meal_plan_data, "grocery_items"), total_cost)
        THEN Fails(500, "ValidationError")
        ELSE LET meal_plan == MealPlan(plan_id, request.start_date, request.end_date,
                                       GetKey(meal_plan_data, "days"),
                                       request.nutrition_goal, total_cost)
                 grocery_list == GroceryList(list_id, plan_id,
                                             GetKey(meal_plan_data, "grocery_items"),
                                             total_cost)
                 answered ==
                     MealPlanResponseValid(
                         total_cost,
                         DictGet(meal_plan_data, "nutrition_summary", PyDict(<<>>, <<>>)))
             IN  [status |-> IF answered THEN 200 ELSE 500,
                  exc |-> IF answered THEN "none" ELSE "ValidationError",
                  plans |-> SetItem(plans, plan_id, meal_plan),
                  lists |-> SetItem(lists, list_id, grocery_list),
                  stored |-> 2]

\* A delete that leaves the grocery lists alone
ListsOfPlan_None(lists, meal_plan_id) == {}

\* The grocery lists DELETE removes with the plan
ListsOfPlan(lists, meal_plan_id) ==
    {gl_id \in DOMAIN lists : lists[gl_id].meal_plan_id = meal_plan_id}

\* What a request to POST /meal-plans carries
MealPlanRequest(start_date, end_date, preferences, nutrition_goal) ==
    [start_date |-> start_date, end_date |-> end_date, preferences |-> preferences,
     nutrition_goal |-> nutrition_goal]
Requests == {MealPlanRequest(Date(2025, 6, 2), Date(2025, 6, 8), PyDict(<<>>, <<>>), PyNone)}

\* POST /meal-plans: the service is called and its result is checked, turned into a
\* meal plan and a grocery list, and stored
PostMealPlans(request, outcome) ==
    /\ uuids < 2 * MaxPlans
    /\ \E r \in {MealPlanService_generate_meal_plan(
                     recipes_dir, request.start_date, request.end_date,
                     request.preferences, request.nutrition_goal, outcome)} :
       \E b \in {IF r.raised
                 THEN [status |-> 500, exc |-> r.exc, plans |-> meal_plans_db,
                       lists |-> grocery_lists_db, stored |-> 0]
                 ELSE PostMealPlanBody(r.ret, request, meal_plans_db, grocery_lists_db,
                                       uuids + 1, uuids + 2)} :
           /\ meal_plans_db' = b.plans
           /\ grocery_lists_db' = b.lists
           /\ uuids' = uuids + b.stored
           /\ lastPlan' = [op |-> "POST /meal-plans", outcome |-> outcome,
                           meal_plan_data |-> r.ret, status |-> b.status, exc |-> b.exc]
    /\ UNCHANGED <<otherThanPlans, recipes_dir>>

\* DELETE /meal-plans/{meal_plan_id}
DeleteMealPlan(meal_plan_id) ==
    /\ IF meal_plan_id \notin DOMAIN meal_plans_db
       THEN /\ lastPlan' = [op |-> "DELETE /meal-plans", id |-> meal_plan_id, status |-> 404]
            /\ UNCHANGED <<meal_plans_db, grocery_lists_db>>
       ELSE /\ meal_plans_db' = DelItems(meal_plans_db, {meal_plan_id})
            /\ grocery_lists_db' =
                   DelItems(grocery_lists_db, ListsOfPlan(grocery_lists_db, meal_plan_id))
            /\ lastPlan' = [op |-> "DELETE /meal-plans", id |-> meal_plan_id, status |-> 200]
    /\ UNCHANGED <<otherThanPlans, recipes_dir, uuids>>

MealPlansNext ==
    \/ StoreRecipe(1, PastaCarbonara)
    \/ \E request \in Requests, outcome \in PlanOutcomes : PostMealPlans(request, outcome)
    \/ \E meal_plan_id \in 1..(2 * MaxPlans) : DeleteMealPlan(meal_plan_id)

SpecMealPlans == Init /\ [][MealPlansNext]_vars

\* ------------------------------------------------------------ Recipe files

\* uuid.UUID, Decimal and a member of the str-valued enum MealType, as python objects
UUID(n) == [t |-> "UUID", n |-> n]
Decimal(s) == [t |-> "Decimal", s |-> s]
MealTypeMember(value) == [t |-> "MealType", value |-> value]

\* Ingredient(name=..., quantity=..., estimated_cost=...)
Ingredient(name, quantity, estimated_cost) ==
    [t |-> "Ingredient", name |-> name, quantity |-> quantity,
     estimated_cost |-> estimated_cost]

\* The fields of Recipe that are followed here, in the order the class declares them
RecipeFields == <<"id", "title", "ingredients", "instructions", "meal_types",
                  "prep_time_minutes", "notes", "created_at", "updated_at">>

\* A Recipe object
Recipe(id, title, ingredients, instructions, meal_types, prep, notes, created_at, updated_at) ==
    [t |-> "Recipe", id |-> id, title |-> title, ingredients |-> ingredients,
     instructions |-> instructions, meal_types |-> meal_types,
     prep_time_minutes |-> prep, notes |-> notes, created_at |-> created_at,
     updated_at |-> updated_at]

\* str(uuid) and uuid.UUID(text): the text of an identifier and its reading
UuidStr(u) == <<"uuid", ToString(u.n)>>
UuidNumbers == 0..(MaxRecipes + 1)
IsUuidText(s) == Len(s) = 2 /\ s[1] = "uuid" /\ \E n \in UuidNumbers : ToString(n) = s[2]
\* A reading that makes a new identifier of every text
UuidOfText_Fresh(s) == UUID(0)

UuidOfText(s) == UUID(CHOOSE n \in UuidNumbers : ToString(n) = s[2])

\* uuid.uuid4() inside load_from_file: an identifier no file is named after
Uuid4 == UUID(0)

\* The texts Decimal(...) reads
DecimalTexts == {<<"1.50">>}

\* model_dump() of an ingredient: a model becomes a dict, anything else is kept
DumpIngredient(i) ==
    IF i.t = "Ingredient"
    THEN PyDict(<<"name", "quantity", "estimated_cost">>,
                <<i.name, i.quantity, i.estimated_cost>>)
    ELSE i

\* self.model_dump()
model_dump(self) ==
    PyDict(RecipeFields,
           <<self.id, self.title,
             IF self.ingredients.t = "list"
             THEN PyList([k \in 1..Len(self.ingredients.items) |->
                             DumpIngredient(self.ingredients.items[k])])
             ELSE self.ingredients,
             self.instructions, self.meal_types, self.prep_time_minutes, self.notes,
             self.created_at, self.updated_at>>)

RECURSIVE JsonDump(_)
RECURSIVE JsonDumpItems(_)
RECURSIVE JsonDumpMembers(_, _)

\* json.dump(value, f, indent=2, default=str), white space and colons left out: a
\* member of a str-valued enum is written as its value, and what json cannot
\* write (UUID, Decimal) is written as str() of it
JsonDump(v) ==
    IF v.t = "None" THEN <<"null">>
    ELSE IF v.t = "int" THEN <<ToString(v.n)>>
    ELSE IF v.t = "float" THEN <<FloatLexeme(v.n)>>
    ELSE IF v.t = "bool" THEN <<IF v.b THEN "true" ELSE "false">>
    ELSE IF v.t = "str" THEN <<Quote>> \o v.s \o <<Quote>>
    ELSE IF v.t = "MealType" THEN <<Quote, v.value, Quote>>
    ELSE IF v.t = "UUID" THEN <<Quote>> \o UuidStr(v) \o <<Quote>>
    ELSE IF v.t = "Decimal" THEN <<Quote>> \o v.s \o <<Quote>>
    ELSE IF v.t = "list" THEN <<"[">> \o JsonDumpItems(v.items) \o <<"]">>
    ELSE <<"{">> \o JsonDumpMembers(v.keys, v.vals) \o <<"}">>

JsonDumpItems(items) ==
    IF items = <<>> THEN <<>>
    ELSE IF Len(items) = 1 THEN JsonDump(items[1])
    ELSE JsonDump(items[1]) \o <<",">> \o JsonDumpItems(Tail(items))

JsonDumpMembers(keys, vals) ==
    IF keys = <<>> THEN <<>>
    ELSE IF Len(keys) = 1 THEN <<keys[1]>> \o JsonDump(vals[1])
    ELSE <<keys[1]>> \o JsonDump(vals[1]) \o <<",">> \o JsonDumpMembers(Tail(keys), Tail(vals))

\* What save_to_file writes: the dump with the identifier turned into its text
FileText(self) ==
    LET Text(recipe_dict) ==
            JsonDump(IF GetKey(recipe_dict, "id").t = "UUID"
                     THEN DictSet(recipe_dict, "id", PyStr(UuidStr(GetKey(recipe_dict, "id"))))
                     ELSE recipe_dict)
    IN  Bind(model_dump(self), Text)

\* Recipe.save_to_file(directory): the file named after the identifier is written,
\* or written anew
Recipe_save_to_file(self, directory) ==
    [f \in DOMAIN directory \cup {self.id.n} |->
        IF f = self.id.n THEN FileText(self) ELSE directory[f]]

\* The conversion of the identifier in load_from_file: a text becomes a UUID, and
\* a text that is none becomes a new identifier
WithUuid(data) ==
    IF HasKey(data, "id") /\ GetKey(data, "id").t = "str"
    THEN DictSet(data, "id", IF IsUuidText(GetKey(data, "id").s)
                             THEN UuidOfText(GetKey(data, "id").s)
                             ELSE Uuid4)
    ELSE data

\* float fields: a float or an int is taken; Optional[float] also takes None
IsFloatLike(v) == v.t \in {"float", "int"}
AsFloat(v) == IF v.t = "int" THEN PyFloat(v.n) ELSE v

\* Optional[Decimal]: None, a number, or a text that reads as a decimal
IsOptionalDecimalLike(v) ==
    v.t \in {"None", "int", "float"} \/ (v.t = "str" /\ v.s \in DecimalTexts)
AsDecimal(v) ==
    IF v.t = "str" THEN Decimal(v.s)
    ELSE IF v.t = "None" THEN v
    ELSE Decimal(<<ToString(v.n)>>)

\* Ingredient(**item) for a dict of the ingredients list
IngredientValid(v) ==
    /\ IsIngredient(v)
    /\ (HasKey(v, "quantity") =>
            GetKey(v, "quantity").t = "None" \/ IsFloatLike(GetKey(v, "quantity")))
    /\ (HasKey(v, "estimated_cost") => IsOptionalDecimalLike(GetKey(v, "estimated_cost")))
IngredientOf(v) ==
    Ingredient(GetKey(v, "name"), AsFloat(DictGet(v, "quantity", PyNone)),
               AsDecimal(DictGet(v, "estimated_cost", PyNone)))

\* List[Union[str, Ingredient]]: a str stays a str, a dict becomes an Ingredient
IngredientsValid(v) ==
    /\ v.t = "list"
    /\ \A k \in 1..Len(v.items) : IsStr(v.items[k]) \/ IngredientValid(v.items[k])
IngredientsOf(v) ==
    PyList([k \in 1..Len(v.items) |->
               IF IsStr(v.items[k]) THEN v.items[k] ELSE IngredientOf(v.items[k])])

\* cls(**data): the fields are validated, and a field left out takes its default
RecipeDataValid(data) ==
    /\ HasKey(data, "id") => GetKey(data, "id").t = "UUID"
    /\ HasKey(data, "title") /\ IsStr(GetKey(data, "title"))
    /\ HasKey(data, "ingredients") /\ IngredientsValid(GetKey(data, "ingredients"))
    /\ HasKey(data, "instructions") /\ IsListOfStr(GetKey(data, "instructions"))
    /\ IsListOfStr(DictGet(data, "meal_types", PyList(<<>>)))
    /\ IsOptionalInt(DictGet(data, "prep_time_minutes", PyNone))
    /\ IsOptionalStr(DictGet(data, "notes", PyNone))
    /\ IsFloatLike(DictGet(data, "created_at", PyFloat(0)))
    /\ IsFloatLike(DictGet(data, "updated_at", PyFloat(0)))

RecipeOfData(data, time) ==
    Recipe(DictGet(data, "id", Uuid4), GetKey(data, "title"),
           IngredientsOf(GetKey(data, "ingredients")), GetKey(data, "instructions"),
           DictGet(data, "meal_types", PyList(<<>>)),
           DictGet(data, "prep_time_minutes", PyNone), DictGet(data, "notes", PyNone),
           AsFloat(DictGet(data, "created_at", PyFloat(time))),
           AsFloat(DictGet(data, "updated_at", PyFloat(time))))

\* Recipe.load_from_file(file_path) on a file that holds text, at the clock's time
Recipe_load_from_file(text, time) ==
    LET Loaded(j) ==
            IF j.exc # "none" THEN [exc |-> j.exc, ret |-> PyNone]
            ELSE IF j.ret.t # "dict" THEN [exc |-> "AttributeError", ret |-> PyNone]
            ELSE IF ~RecipeDataValid(WithUuid(j.ret))
                 THEN [exc |-> "ValidationError", ret |-> PyNone]
            ELSE [exc |-> "none", ret |-> RecipeOfData(WithUuid(j.ret), time)]
    IN  Bind(JsonLoads(text), Loaded)

\* ---- what is saved to the recipe files and what is sent to the recipes router

\* What a caller fills in when it makes a Recipe
RecipeContent(title, ingredients, instructions, meal_types, prep, notes) ==
    [title |-> title, ingredients |-> ingredients, instructions |-> instructions,
     meal_types |-> meal_types, prep_time_minutes |-> prep, notes |-> notes]

Soup ==
    RecipeContent(PyStr(<<"Soup">>), PyList(<<PyStr(<<"Salt">>)>>),
                  PyList(<<PyStr(<<"Boil">>)>>), PyList(<<MealTypeMember("dinner")>>),
                  PyNone, PyNone)
TomatoSoup2 ==
    RecipeContent(PyStr(<<"Tomato", "Soup">>),
                  PyList(<<Ingredient(PyStr(<<"Tomato">>), PyFloat(1), Decimal(<<"1.50">>)),
                           PyStr(<<"Salt">>)>>),
                  PyList(<<PyStr(<<"Chop">>), PyStr(<<"Boil">>)>>),
                  PyList(<<PyStr(<<"lunch">>), MealTypeMember("dinner")>>),
                  PyInt(1), PyStr(<<"hot">>))
RecipeContents == {Soup, TomatoSoup2}

\* Recipe(id=..., title=..., ...) made at the clock's time: created_at and
\* updated_at take their default, time.time()
NewRecipe(id, content, time) ==
    Recipe(UUID(id), content.title, content.ingredients, content.instructions,
           content.meal_types, content.prep_time_minutes, content.notes,
           PyFloat(time), PyFloat(time))

\* The limit and offset of a listing
PageLimits == {1, DefaultLimit}
PageOffsets == 0..MaxRecipes

\* The fields a PUT body sets: recipe_request.model_dump(exclude_unset=True)
UpdateBodies ==
    {PyDict(<<>>, <<>>),
     PyDict(<<"title">>, <<PyStr(<<"Stew">>)>>),
     PyDict(<<"prep_time_minutes", "notes">>, <<PyInt(1), PyStr(<<"cold">>)>>),
     PyDict(<<"ingredients">>, <<PyList(<<PyDict(<<"name">>, <<PyStr(<<"Leek">>)>>)>>)>>),
     PyDict(<<"title">>, <<PyNone>>)}

\* RecipeStorageService.save_recipe(recipe) at the clock's time: the object as it
\* is left, and the directory
RecipeStorageService_save_recipe(directory, recipe, time) ==
    LET Saved(r) == [recipe |-> r, directory |-> Recipe_save_to_file(r, directory)]
    IN  Bind([recipe EXCEPT !.updated_at = PyFloat(time)], Saved)

\* A load that lets the error of load_from_file through
load_recipe_Uncaught(directory, recipe_id, time) ==
    IF recipe_id \notin DOMAIN directory THEN [exc |-> "none", ret |-> PyNone]
    ELSE Recipe_load_from_file(directory[recipe_id], time)

\* RecipeStorageService.load_recipe(recipe_id)
RecipeStorageService_load_recipe(directory, recipe_id, time) ==
    IF recipe_id \notin DOMAIN directory THEN [exc |-> "none", ret |-> PyNone]
    ELSE LET Try(l) ==
                 IF l.exc # "none" /\ ExceptException(l.exc)
                 THEN [exc |-> "none", ret |-> PyNone]
                 ELSE l
         IN  Bind(Recipe_load_from_file(directory[recipe_id], time), Try)

\* The loading loop of list_recipes over file texts: a file that does not load is
\* skipped
RECURSIVE LoadEach(_, _, _)
LoadEach(directory, recipe_files, time) ==
    IF recipe_files = <<>> THEN <<>>
    ELSE LET Step(l) == (IF l.exc = "none" THEN <<l.ret>> ELSE <<>>)
                            \o LoadEach(directory, Tail(recipe_files), time)
         IN  Bind(Recipe_load_from_file(directory[Head(recipe_files)], time), Step)

\* A page that starts at the first file whatever the offset
PageOfFiles_FromStart(files, limit, offset) == Slice(files, 0, limit)

\* recipe_files[offset:offset + limit]
PageOfFiles(files, limit, offset) == Slice(files, offset, offset + limit)

\* RecipeStorageService.list_recipes(limit, offset)
RecipeStorageService_list_recipes(directory, limit, offset, time) ==
    LoadEach(directory, PageOfFiles(SortedFiles(DOMAIN directory), limit, offset), time)

\* ---- the recipes router

\* GET /recipes/{recipe_id}
get_recipe(directory, recipe_id, time) ==
    LET Answer(l) ==
            IF l.exc # "none" THEN [status |-> 500, ret |-> PyNone]
            ELSE IF l.ret = PyNone THEN [status |-> 404, ret |-> PyNone]
            ELSE [status |-> 200, ret |-> l.ret]
    IN  Bind(RecipeStorageService_load_recipe(directory, recipe_id, time), Answer)

\* A copy that takes only what the request sent and leaves the rest to its defaults
model_copy_Replace(self, update) ==
    [f \in DOMAIN self |->
        IF f \in {"t", "id"} THEN self[f]
        ELSE IF HasKey(update, f) THEN GetKey(update, f)
        ELSE PyNone]

\* existing_recipe.model_copy(update=update_data): the fields named are replaced
\* as they come, nothing is validated
model_copy(self, update) ==
    [f \in DOMAIN self |-> IF f # "t" /\ HasKey(update, f) THEN GetKey(update, f) ELSE self[f]]

\* The response model is applied to what the handler returns.  An object of the
\* response model's own class is validated again or passed as it is, as the
\* installed library has it, so that an object with a field of the wrong type is
\* answered with 500 or with 200
RecipeObjectValid(r) ==
    /\ r.id.t = "UUID"
    /\ IsStr(r.title)
    /\ r.ingredients.t = "list"
    /\ IsListOfStr(r.instructions)
    /\ r.meal_types.t = "list"
    /\ IsOptionalInt(r.prep_time_minutes)
    /\ IsOptionalStr(r.notes)
ResponseStatuses(status, r) ==
    IF status = 200 /\ ~RecipeObjectValid(r) THEN {200, 500} ELSE {status}

\* PUT /recipes/{recipe_id}; recipe_request holds the fields the body set
update_recipe(directory, recipe_request, recipe_id, time) ==
    LET Update(existing_recipe) ==
            IF existing_recipe.exc # "none"
            THEN [status |-> 500, ret |-> PyNone, directory |-> directory]
            ELSE IF existing_recipe.ret = PyNone
            THEN [status |-> 404, ret |-> PyNone, directory |-> directory]
            ELSE LET Save(saved) ==
                         [status |-> 200, ret |-> saved.recipe, directory |-> saved.directory]
                 IN  Bind(RecipeStorageService_save_recipe(
                              directory,
                              model_copy(existing_recipe.ret,
                                         DictSet(recipe_request, "updated_at", PyFloat(time))),
                              time), Save)
    IN  Bind(RecipeStorageService_load_recipe(directory, recipe_id, time), Update)

\* ---- the operations on the recipe files, one after the other; the store is
\* written, and then it is read while it stays as it is

otherThanFiles == <<extractionVars, lastCall, storageVars, mealPlanVars, saverVars, ocrVars, dbVars, userVars>>

ReadOps == {"load_recipe", "list_recipes", "GET /recipes"}
NoReadYet == lastRecipe.op \notin ReadOps
NoPutYet == NoReadYet /\ lastRecipe.op # "PUT /recipes"

\* time.time() moves on
Tick ==
    /\ NoPutYet
    /\ now < MaxClock
    /\ now' = now + 1
    /\ UNCHANGED <<file_texts, lastRecipe, otherThanFiles>>

\* A caller makes a Recipe with the identifier and saves it
SaveNewRecipe(id, content) ==
    /\ NoReadYet
    /\ \E r \in {RecipeStorageService_save_recipe(file_texts, NewRecipe(id, content, now), now)} :
          /\ file_texts' = r.directory
          /\ lastRecipe' = [op |-> "save_recipe", id |-> id, recipe |-> r.recipe]
    /\ UNCHANGED <<now, otherThanFiles>>

RemoveRecipe(id) ==
    /\ NoReadYet
    /\ \E r \in {delete_recipe(file_texts, id, TRUE)} :
          /\ file_texts' = r.dir
          /\ lastRecipe' = [op |-> "delete_recipe", id |-> id, ret |-> r.ret]
    /\ UNCHANGED <<now, otherThanFiles>>

\* load_recipe, which keeps what the call before it saved under the identifier
LoadRecipe(id) ==
    /\ NoReadYet
    /\ \E r \in {RecipeStorageService_load_recipe(file_texts, id, now)} :
          lastRecipe' = [op |-> "load_recipe", id |-> id, exc |-> r.exc, ret |-> r.ret,
                         saved |-> IF lastRecipe.op = "save_recipe" /\ lastRecipe.id = id
                                   THEN lastRecipe ELSE NoCall]
    /\ UNCHANGED <<file_texts, now, otherThanFiles>>

\* A listing, and after it the same page again or the page that follows it
ListRecipes(limit, offset) ==
    /\ \/ NoReadYet
       \/ /\ lastRecipe.op = "list_recipes"
          /\ lastRecipe.previous = NoCall
          /\ limit = lastRecipe.limit
          /\ offset \in {lastRecipe.offset, lastRecipe.offset + limit}
    /\ lastRecipe' = [op |-> "list_recipes", limit |-> limit, offset |-> offset,
                      ret |-> RecipeStorageService_list_recipes(file_texts, limit, offset, now),
                      previous |-> IF lastRecipe.op = "list_recipes"
                                   THEN [op |-> "list_recipes", offset |-> lastRecipe.offset,
                                         ret |-> lastRecipe.ret]
                                   ELSE NoCall]
    /\ UNCHANGED <<file_texts, now, otherThanFiles>>

\* GET /recipes/{recipe_id}
GetRecipe(id) ==
    /\ NoPutYet
    /\ \E r \in {get_recipe(file_texts, id, now)} :
          lastRecipe' = [op |-> "GET /recipes", id |-> id, status |-> r.status, ret |-> r.ret]
    /\ UNCHANGED <<file_texts, now, otherThanFiles>>

RecipeFilesNext ==
    \/ Tick
    \/ \E id \in RecipeIds, content \in RecipeContents : SaveNewRecipe(id, content)
    \/ \E id \in RecipeIds : LoadRecipe(id)
    \/ \E id \in RecipeIds : RemoveRecipe(id)
    \/ \E id \in RecipeIds : GetRecipe(id)

SpecRecipeFiles == Init /\ [][RecipeFilesNext]_vars

\* The listings of the recipe files, at one time of the clock
RecipeListingNext ==
    \/ \E id \in RecipeIds, content \in RecipeContents : SaveNewRecipe(id, content)
    \/ \E id \in RecipeIds : RemoveRecipe(id)
    \/ \E limit \in PageLimits, offset \in PageOffsets : ListRecipes(limit, offset)

SpecRecipeListing == Init /\ [][RecipeListingNext]_vars

\* ---- save_recipe calls of one identifier side by side, with readers

\* f.write(text) through a file opened at its start: the text replaces what the
\* file holds from the start on, and what lies beyond the text stays
WriteAtStart(old, text) == text \o SubSeq(old, Len(text) + 1, Len(old))

otherThanSavers == <<extractionVars, lastCall, storageVars, mealPlanVars, ocrVars, dbVars, userVars>>

\* save_recipe up to open(file_path, "w"): updated_at is set, the object is dumped,
\* and the file is made or emptied
SaverOpens(w, content) ==
    /\ savers[w].pc = "idle"
    /\ \E r \in {[NewRecipe(SharedId, content, now) EXCEPT !.updated_at = PyFloat(now)]} :
          savers' = [savers EXCEPT ![w] = [pc |-> "open", recipe |-> r, text |-> FileText(r)]]
    /\ file_texts' = [f \in DOMAIN file_texts \cup {SharedId} |->
                         IF f = SharedId THEN <<>> ELSE file_texts[f]]
    /\ UNCHANGED <<now, lastRecipe, finished, otherThanSavers>>

\* json.dump and the end of the with block: the text is written, and the call returns
SaverWrites(w) ==
    /\ savers[w].pc = "open"
    /\ file_texts' = [file_texts EXCEPT
                         ![SharedId] = WriteAtStart(file_texts[SharedId], savers[w].text)]
    /\ savers' = [savers EXCEPT ![w].pc = "done"]
    /\ finished' = Append(finished, w)
    /\ UNCHANGED <<now, lastRecipe, otherThanSavers>>

\* A load_recipe call of another request
ReaderLoads ==
    /\ \E r \in {RecipeStorageService_load_recipe(file_texts, SharedId, now)} :
          lastRecipe' = [op |-> "load_recipe", id |-> SharedId, exc |-> r.exc, ret |-> r.ret]
    /\ UNCHANGED <<file_texts, now, saverVars, otherThanSavers>>

\* A list_recipes call of another request
ReaderLists ==
    /\ lastRecipe' = [op |-> "list_recipes", limit |-> DefaultLimit, offset |-> 0,
                      ret |-> RecipeStorageService_list_recipes(file_texts, DefaultLimit, 0, now),
                      previous |-> NoCall]
    /\ UNCHANGED <<file_texts, now, saverVars, otherThanSavers>>

ConcurrentSavesNext ==
    \/ \E w \in Savers, content \in RecipeContents : SaverOpens(w, content)
    \/ \E w \in Savers : SaverWrites(w)
    \/ ReaderLoads
    \/ ReaderLists

SpecConcurrentSaves == Init /\ [][ConcurrentSavesNext]_vars

\* ---- the requests to the recipes router; one PUT or one GET is followed per
\* behaviour

\* POST /recipes: the recipe is made under a new identifier, uuid4(), and saved;
\* the least identifier without a file stands for every new one
PostRecipe(id, content) ==
    /\ NoPutYet
    /\ id \notin DOMAIN file_texts
    /\ \A other \in RecipeIds \ DOMAIN file_texts : id <= other
    /\ \E r \in {RecipeStorageService_save_recipe(file_texts, NewRecipe(id, content, now), now)} :
          /\ file_texts' = r.directory
          /\ lastRecipe' = [op |-> "POST /recipes", id |-> id, status |-> 200, ret |-> r.recipe]
    /\ UNCHANGED <<now, otherThanFiles>>

PutRecipe(id, body) ==
    /\ NoPutYet
    /\ \E r \in {update_recipe(file_texts, body, id, now)} :
          /\ file_texts' = r.directory
          /\ \E status \in ResponseStatuses(r.status, r.ret) :
                lastRecipe' = [op |-> "PUT /recipes", id |-> id, body |-> body,
                               status |-> status, ret |-> r.ret]
    /\ UNCHANGED <<now, otherThanFiles>>

RecipesRouterNext ==
    \/ Tick
    \/ \E id \in RecipeIds, content \in RecipeContents : PostRecipe(id, content)
    \/ \E id \in RecipeIds : GetRecipe(id)
    \/ \E id \in RecipeIds, body \in UpdateBodies : PutRecipe(id, body)

SpecRecipesRouter == Init /\ [][RecipesRouterNext]_vars


\* -------------------------------------------------------------- OCR engines

PyMuPDFEngine == "PyMuPDFEngine"
MarkerEngine == "MarkerEngine"
OcrEngines == {PyMuPDFEngine, MarkerEngine}

\* OCREngine.PYMUPDF and OCREngine.MARKER
EngineUsed(engine) == IF engine = PyMuPDFEngine THEN "pymupdf" ELSE "marker"

\* get_supported_formats(), an extension being a sequence of characters
get_supported_formats(engine) ==
    IF engine = PyMuPDFEngine
    THEN {<<".", "p", "d", "f">>,
         <<".", "x", "p", "s">>,
         <<".", "o", "x", "p", "s">>,
         <<".", "e", "p", "u", "b">>,
         <<".", "m", "o", "b", "i">>,
         <<".", "f", "b", "2">>,
         <<".", "c", "b", "z">>,
         <<".", "s", "v", "g">>}
    ELSE {<<".", "j", "p", "g">>,
         <<".", "j", "p", "e", "g">>,
         <<".", "p", "n", "g">>,
         <<".", "b", "m", "p">>,
         <<".", "t", "i", "f", "f">>,
         <<".", "t", "i", "f">>,
         <<".", "g", "i", "f">>}

\* supports_format(file_path): file_path.suffix.lower() is looked up
supports_format(engine, file) == Lower(file.suffix) \in get_supported_formats(engine)

\* OCRResult(...)
OCRResult(text, confidence, engine_used, page_count, ocr_warnings) ==
    [text |-> text, confidence |-> confidence, engine_used |-> engine_used,
     page_count |-> page_count, warnings |-> ocr_warnings]

\* The result of the three failure branches: no text, confidence 0.0, one warning
FailureResult(engine, warning) ==
    [exc |-> "none", ret |-> OCRResult(<<>>, 0, EngineUsed(engine), PyNone, <<warning>>)]

\* except Exception as e: the failure result with the error as its warning
CaughtOrRaised(engine, exc) ==
    IF ExceptException(exc)
    THEN FailureResult(engine, <<"Error extracting text:", exc>>)
    ELSE [exc |-> exc, ret |-> PyNone]

\* A text is a sequence of blocks of characters, four blocks being the length
\* from which the heuristic gives full confidence
FullConfidenceLength == 1000
BlockLength == FullConfidenceLength \div 4
TextLength(text) == BlockLength * Len(text)

\* A heuristic without the cap
PyMuPDFConfidence_Unclamped(text) ==
    IF text = <<>> THEN 0 ELSE (100 * TextLength(text)) \div FullConfidenceLength

\* min(1.0, len(text) / 1000) if text else 0.0, in hundredths
PyMuPDFConfidence(text) ==
    IF text = <<>> THEN 0
    ELSE IF (100 * TextLength(text)) \div FullConfidenceLength > 100 THEN 100
    ELSE (100 * TextLength(text)) \div FullConfidenceLength

\* text += page.get_text() over the pages
RECURSIVE PagesText(_)
PagesText(pages) == IF pages = <<>> THEN <<>> ELSE Head(pages) \o PagesText(Tail(pages))

\* PyMuPDFEngine.extract_text(file_path).  fitz.open raises on a file it cannot
\* read; len(doc) is asked of the document after doc.close(), which raises
\* ValueError in the library versions that check for a closed document
PyMuPDFEngine_extract_text(file) ==
    IF ~file.exists
    THEN FailureResult(PyMuPDFEngine, <<"File not found:", file.name>>)
    ELSE IF ~supports_format(PyMuPDFEngine, file)
    THEN FailureResult(PyMuPDFEngine, <<"Unsupported file format:">> \o file.suffix)
    ELSE IF ~file.opens THEN CaughtOrRaised(PyMuPDFEngine, "FileDataError")
    ELSE IF file.closed_len_raises THEN CaughtOrRaised(PyMuPDFEngine, "ValueError")
    ELSE [exc |-> "none",
          ret |-> OCRResult(PagesText(file.pages), PyMuPDFConfidence(PagesText(file.pages)),
                            EngineUsed(PyMuPDFEngine), PyInt(Len(file.pages)), <<>>)]

\* confidence = 0.7, in hundredths
MarkerConfidence == 70

\* MarkerEngine.extract_text(file_path).  Image.open raises on a file that is no
\* image
MarkerEngine_extract_text(file) ==
    IF ~file.exists
    THEN FailureResult(MarkerEngine, <<"File not found:", file.name>>)
    ELSE IF ~supports_format(MarkerEngine, file)
    THEN FailureResult(MarkerEngine, <<"Unsupported file format:">> \o file.suffix)
    ELSE IF ~file.opens THEN CaughtOrRaised(MarkerEngine, "UnidentifiedImageError")
    ELSE [exc |-> "none",
          ret |-> OCRResult(<<"[Placeholder OCR text for", file.name, "]">>, MarkerConfidence,
                            EngineUsed(MarkerEngine), PyNone, <<>>)]

\* ---- the files an engine is given

MaxPages == 2
Suffixes == {<<".", "p", "d", "f">>, <<".", "P", "D", "F">>, <<".", "p", "n", "g">>,
             <<".", "t", "x", "t">>, <<>>}
PageTexts == {<<>>, <<"block">>, <<"block", "block", "block">>}
SourceFiles ==
    [name : {"recipe"}, exists : BOOLEAN, suffix : Suffixes, opens : BOOLEAN,
     pages : UNION {[1..n -> PageTexts] : n \in 0..MaxPages}, closed_len_raises : BOOLEAN]

otherThanEngines == <<extractionVars, lastCall, storageVars, mealPlanVars, recipeFileVars, saverVars, dbVars, userVars>>

\* One extract_text call, made once per behaviour
ExtractText(engine, file) ==
    /\ lastOcr = NoCall
    /\ lastOcr' = [op |-> "extract_text", engine |-> engine, file |-> file,
                   result |-> IF engine = PyMuPDFEngine
                              THEN PyMuPDFEngine_extract_text(file)
                              ELSE MarkerEngine_extract_text(file)]
    /\ UNCHANGED otherThanEngines

OcrEnginesNext == \E engine \in OcrEngines, file \in SourceFiles : ExtractText(engine, file)

SpecOcrEngines == Init /\ [][OcrEnginesNext]_vars


\* -------------------------------------------------------------- database services

\* The recipes that are made, the users that rate, and the values given
MaxDbRecipes == 2
MaxMinutes == 1
MaxStars == 2
DbRecipeIds == 1..MaxDbRecipes
Raters == {"ann", "bob"}
Stars == 1..MaxStars

\* value or 0
OrZero(v) == IF v = PyNone \/ v.n = 0 THEN 0 ELSE v.n

\* A total that is the preparation time alone
TotalTime_PrepOnly(prep_time, cook_time) ==
    IF prep_time # 0 \/ cook_time # 0 THEN PyInt(prep_time) ELSE PyNone

\* prep_time + cook_time if prep_time or cook_time else None
TotalTime(prep_time, cook_time) ==
    IF prep_time # 0 \/ cook_time # 0 THEN PyInt(prep_time + cook_time) ELSE PyNone

\* The columns of a recipes row that are followed here; a column that is not given
\* takes its default
RecipeRow(title, prep, cook, total) ==
    [title |-> title, prep_time_minutes |-> prep, cook_time_minutes |-> cook,
     total_time_minutes |-> total, average_rating |-> [num |-> 0, den |-> 1],
     rating_count |-> 0]

\* for key, value in recipe_data.items(): setattr(recipe, key, value)
SetAttrs(row, data) ==
    [column \in DOMAIN row |-> IF HasKey(data, column) THEN GetKey(data, column) ELSE row[column]]

\* RecipeService.create_recipe(user_id, recipe_data), the row getting the
\* identifier new_id.  Recipe(total_time_minutes=..., **recipe_data) is a call with
\* one keyword given twice when recipe_data names the total
RecipeService_create_recipe(recipes, recipe_data, new_id) ==
    IF HasKey(recipe_data, "total_time_minutes")
    THEN [exc |-> "TypeError", ret |-> PyNone, recipes |-> recipes]
    ELSE LET Made(row) ==
                 [exc |-> "none", ret |-> row,
                  recipes |-> [r \in DOMAIN recipes \cup {new_id} |->
                                  IF r = new_id THEN row ELSE recipes[r]]]
         IN  Bind(SetAttrs(RecipeRow(PyNone, PyNone, PyNone,
                                     TotalTime(OrZero(DictGet(recipe_data, "prep_time_minutes", PyInt(0))),
                                               OrZero(DictGet(recipe_data, "cook_time_minutes", PyInt(0))))),
                           recipe_data), Made)

\* RecipeService.update_recipe(recipe_id, recipe_data)
RecipeService_update_recipe(recipes, recipe_id, recipe_data) ==
    IF recipe_id \notin DOMAIN recipes THEN [ret |-> PyNone, recipes |-> recipes]
    ELSE LET Updated(row) ==
                 [ret |-> row, recipes |-> [recipes EXCEPT ![recipe_id] = row]]
             WithTotal(recipe) ==
                 IF HasKey(recipe_data, "prep_time_minutes") \/ HasKey(recipe_data, "cook_time_minutes")
                 THEN DictSet(recipe_data, "total_time_minutes",
                              TotalTime(OrZero(DictGet(recipe_data, "prep_time_minutes",
                                                       recipe.prep_time_minutes)),
                                        OrZero(DictGet(recipe_data, "cook_time_minutes",
                                                       recipe.cook_time_minutes))))
                 ELSE recipe_data
         IN  Bind(SetAttrs(recipes[recipe_id], WithTotal(recipes[recipe_id])), Updated)

\* ---- the ratings

\* The rows of recipe_ratings WHERE recipe_id = ...
RatingsOf(ratings, recipe_id) == {key \in DOMAIN ratings : key[2] = recipe_id}

\* func.avg(rating) and func.count(rating) over rows: the average of no row is NULL
RECURSIVE SqlSum(_, _)
SqlSum(ratings, keys) ==
    IF keys = {} THEN 0
    ELSE LET key == CHOOSE k \in keys : TRUE
         IN  ratings[key].rating + SqlSum(ratings, keys \ {key})
SqlAvg(ratings, keys) ==
    IF keys = {} THEN PyNone ELSE [num |-> SqlSum(ratings, keys), den |-> Cardinality(keys)]
SqlCount(ratings, keys) == Cardinality(keys)

\* An update that leaves the recipe as it is
RatingService_update_recipe_average_rating_Skipped(recipes, ratings, recipe_id) == recipes

\* RecipeRatingService._update_recipe_average_rating(recipe_id)
RatingService_update_recipe_average_rating(recipes, ratings, recipe_id) ==
    LET Set(avg_rating) ==
            [recipes EXCEPT ![recipe_id].average_rating =
                                IF avg_rating = PyNone \/ avg_rating.num = 0
                                THEN [num |-> 0, den |-> 1] ELSE avg_rating,
                            ![recipe_id].rating_count = SqlCount(ratings, RatingsOf(ratings, recipe_id))]
    IN  IF recipe_id \notin DOMAIN recipes THEN recipes
        ELSE Bind(SqlAvg(ratings, RatingsOf(ratings, recipe_id)), Set)

\* RecipeRatingService.create_rating(user_id, recipe_id, rating): a second row of
\* a user and a recipe breaks the unique constraint at the commit
RatingService_create_rating(recipes, ratings, user_id, recipe_id, rating) ==
    IF <<user_id, recipe_id>> \in DOMAIN ratings
    THEN [exc |-> "IntegrityError", recipes |-> recipes, ratings |-> ratings]
    ELSE LET Added(rows) ==
                 [exc |-> "none", ratings |-> rows,
                  recipes |-> RatingService_update_recipe_average_rating(recipes, rows, recipe_id)]
         IN  Bind([key \in DOMAIN ratings \cup {<<user_id, recipe_id>>} |->
                      IF key = <<user_id, recipe_id>> THEN [rating |-> rating] ELSE ratings[key]],
                  Added)

\* RecipeRatingService.update_rating(user_id, recipe_id, **kwargs)
RatingService_update_rating(recipes, ratings, user_id, recipe_id, kwargs) ==
    IF <<user_id, recipe_id>> \notin DOMAIN ratings
    THEN [ret |-> PyNone, recipes |-> recipes, ratings |-> ratings]
    ELSE LET Changed(rows) ==
                 [ret |-> rows[<<user_id, recipe_id>>], ratings |-> rows,
                  recipes |-> RatingService_update_recipe_average_rating(recipes, rows, recipe_id)]
         IN  Bind([ratings EXCEPT ![<<user_id, recipe_id>>] =
                      [column \in DOMAIN @ |->
                          IF HasKey(kwargs, column) THEN GetKey(kwargs, column).n ELSE @[column]]],
                  Changed)

\* RecipeRatingService.delete_rating(user_id, recipe_id)
RatingService_delete_rating(recipes, ratings, user_id, recipe_id) ==
    IF <<user_id, recipe_id>> \notin DOMAIN ratings
    THEN [ret |-> FALSE, recipes |-> recipes, ratings |-> ratings]
    ELSE LET Deleted(rows) ==
                 [ret |-> TRUE, ratings |-> rows,
                  recipes |-> RatingService_update_recipe_average_rating(recipes, rows, recipe_id)]
         IN  Bind([key \in DOMAIN ratings \ {<<user_id, recipe_id>>} |-> ratings[key]], Deleted)

\* ---- what the services are given

\* The times a caller gives: none, a number of minutes, or one below zero, which
\* no column refuses
MinuteValues == {PyNone} \cup {PyInt(n) : n \in -1..MaxMinutes}

\* recipe_data with the times that are named
BothTimes(prep, cook) == PyDict(<<"prep_time_minutes", "cook_time_minutes">>, <<prep, cook>>)
TimeDatas ==
    {PyDict(<<>>, <<>>)}
        \cup {PyDict(<<"prep_time_minutes">>, <<v>>) : v \in MinuteValues}
        \cup {PyDict(<<"cook_time_minutes">>, <<v>>) : v \in MinuteValues}
        \cup {BothTimes(prep, cook) : prep \in MinuteValues, cook \in MinuteValues}
GivenTotal == PyInt(MaxMinutes + MaxMinutes + 1)
WithGivenTotal(data) == DictSet(data, "total_time_minutes", GivenTotal)
WithTitle(data) == DictSet(data, "title", PyStr(<<"Pasta">>))
CreateDatas ==
    {WithTitle(data) : data \in TimeDatas} \cup {WithTitle(WithGivenTotal(PyDict(<<>>, <<>>)))}
UpdateDatas ==
    TimeDatas \cup {WithTitle(PyDict(<<>>, <<>>)), WithGivenTotal(PyDict(<<>>, <<>>)),
                    WithGivenTotal(PyDict(<<"prep_time_minutes">>, <<PyInt(MaxMinutes)>>))}
PlainRecipe == WithTitle(PyDict(<<>>, <<>>))
RatingKwargs == {PyDict(<<>>, <<>>)} \cup {PyDict(<<"rating">>, <<PyInt(v)>>) : v \in Stars}

otherThanDb == <<extractionVars, lastCall, storageVars, mealPlanVars, recipeFileVars, saverVars, ocrVars, userVars>>

\* create_recipe; the default of the id column, uuid4(), gives an identifier no row
\* has, and the least such stands for every one
CreateRecipe(id, data) ==
    /\ id \notin DOMAIN db_recipes
    /\ \A other \in DbRecipeIds \ DOMAIN db_recipes : id <= other
    /\ \E r \in {RecipeService_create_recipe(db_recipes, data, id)} :
          /\ db_recipes' = r.recipes
          /\ lastDb' = [op |-> "create_recipe", id |-> id, data |-> data, exc |-> r.exc]
    /\ UNCHANGED <<db_ratings, otherThanDb>>

UpdateRecipe(id, data) ==
    /\ \E r \in {RecipeService_update_recipe(db_recipes, id, data)} :
          /\ db_recipes' = r.recipes
          /\ lastDb' = [op |-> "update_recipe", id |-> id, data |-> data,
                        found |-> r.ret # PyNone]
    /\ UNCHANGED <<db_ratings, otherThanDb>>

\* One recipe is made and updated
DbRecipesNext ==
    \/ \E id \in DbRecipeIds, data \in CreateDatas : db_recipes = <<>> /\ CreateRecipe(id, data)
    \/ \E id \in DbRecipeIds, data \in UpdateDatas : UpdateRecipe(id, data)

SpecDbRecipes == Init /\ [][DbRecipesNext]_vars

\* The rating calls for the recipes that exist
CreateRating(user_id, recipe_id, rating) ==
    /\ recipe_id \in DOMAIN db_recipes
    /\ \E r \in {RatingService_create_rating(db_recipes, db_ratings, user_id, recipe_id, rating)} :
          /\ db_recipes' = r.recipes
          /\ db_ratings' = r.ratings
          /\ lastDb' = [op |-> "create_rating", exc |-> r.exc]
    /\ UNCHANGED otherThanDb

UpdateRating(user_id, recipe_id, kwargs) ==
    /\ recipe_id \in DOMAIN db_recipes
    /\ \E r \in {RatingService_update_rating(db_recipes, db_ratings, user_id, recipe_id, kwargs)} :
          /\ db_recipes' = r.recipes
          /\ db_ratings' = r.ratings
          /\ lastDb' = [op |-> "update_rating", found |-> r.ret # PyNone]
    /\ UNCHANGED otherThanDb

DeleteRating(user_id, recipe_id) ==
    /\ recipe_id \in DOMAIN db_recipes
    /\ \E r \in {RatingService_delete_rating(db_recipes, db_ratings, user_id, recipe_id)} :
          /\ db_recipes' = r.recipes
          /\ db_ratings' = r.ratings
          /\ lastDb' = [op |-> "delete_rating", found |-> r.ret]
    /\ UNCHANGED otherThanDb

RatingsNext ==
    \/ \E id \in DbRecipeIds : CreateRecipe(id, PlainRecipe)
    \/ \E user_id \in Raters, recipe_id \in DbRecipeIds, rating \in Stars :
          CreateRating(user_id, recipe_id, rating)
    \/ \E user_id \in Raters, recipe_id \in DbRecipeIds, kwargs \in RatingKwargs :
          UpdateRating(user_id, recipe_id, kwargs)
    \/ \E user_id \in Raters, recipe_id \in DbRecipeIds : DeleteRating(user_id, recipe_id)

SpecRatings == Init /\ [][RatingsNext]_vars


\* -------------------------------------------------------------- users router

MaxUsers == 2
UserIds == 1..MaxUsers
Emails == {"ann@example.org", "bob@example.org"}

\* A User of the request body
User(id, email) == [id |-> id, email |-> email]
Users == {User(id, email) : id \in UserIds, email \in Emails}

\* POST /users
create_user(db, user) ==
    IF user.id \in DOMAIN db \/ \E u \in DOMAIN db : db[u].email = user.email
    THEN [status |-> 400, ret |-> PyNone, users_db |-> db]
    ELSE [status |-> 200, ret |-> user,
          users_db |-> [u \in DOMAIN db \cup {user.id} |-> IF u = user.id THEN user ELSE db[u]]]

\* PUT /users/{user_id}
update_user(db, updated_user, user_id) ==
    IF user_id \notin DOMAIN db THEN [status |-> 404, ret |-> PyNone, users_db |-> db]
    ELSE IF updated_user.id # user_id THEN [status |-> 400, ret |-> PyNone, users_db |-> db]
    ELSE [status |-> 200, ret |-> updated_user,
          users_db |-> [db EXCEPT ![user_id] = updated_user]]

\* DELETE /users/{user_id}
delete_user(db, user_id) ==
    IF user_id \notin DOMAIN db THEN [status |-> 404, users_db |-> db]
    ELSE [status |-> 200, users_db |-> [u \in DOMAIN db \ {user_id} |-> db[u]]]

otherThanUsers == <<extractionVars, lastCall, storageVars, mealPlanVars, recipeFileVars, saverVars, ocrVars, dbVars>>

PostUser(user) ==
    /\ \E r \in {create_user(users_db, user)} :
          /\ users_db' = r.users_db
          /\ lastUser' = [op |-> "POST /users", user |-> user, status |-> r.status]
    /\ UNCHANGED otherThanUsers

PutUser(user_id, updated_user) ==
    /\ \E r \in {update_user(users_db, updated_user, user_id)} :
          /\ users_db' = r.users_db
          /\ lastUser' = [op |-> "PUT /users", user |-> updated_user, status |-> r.status]
    /\ UNCHANGED otherThanUsers

DeleteUser(user_id) ==
    /\ \E r \in {delete_user(users_db, user_id)} :
          /\ users_db' = r.users_db
          /\ lastUser' = [op |-> "DELETE /users", user |-> User(user_id, ""), status |-> r.status]
    /\ UNCHANGED otherThanUsers

UsersNext ==
    \/ \E user \in Users : PostUser(user)
    \/ \E user_id \in UserIds, updated_user \in Users : PutUser(user_id, updated_user)
    \/ \E user_id \in UserIds : DeleteUser(user_id)

SpecUsers == Init /\ [][UsersNext]_vars

\* ------------------------------------------------------------------ claims

FallbackRan == fallback_result # NoResult
EngineCallees == {"ocr_primary.extract_text", "ocr_fallback.extract_text"}
EngineCallCount(cs) == Cardinality({i \in 1..Len(cs) : cs[i].callee \in EngineCallees})
RunEnded == pc \in {"done", "raised"}

\* The issues of an assessment, as a run appends them: the items of a list, the
\* characters of a string
AppendedIssues(qa) ==
    IF ~HasKey(qa, "detected_issues") THEN <<>>
    ELSE LET v == GetKey(qa, "detected_issues")
         IN  CASE v.t = "list" -> v.items
               [] v.t = "str" -> [i \in 1..Len(v.s) |-> PyStr(<<v.s[i]>>)]
               [] v.t = "dict" -> [i \in 1..Len(v.keys) |-> PyStr(<<v.keys[i]>>)]
               [] OTHER -> <<>>

\* C1: whenever the fallback engine was run, the chosen OCR result, and the one the
\* response carries, is the fallback's result if its confidence is strictly greater
\* than the primary's, and the primary's result otherwise (a tie keeps the primary).
C1_FallbackChoice ==
    FallbackRan =>
        LET chosen == IF fallback_result.confidence > primary_result.confidence
                      THEN fallback_result ELSE primary_result
        IN  /\ primary_result.confidence < 50
            /\ ocr_result = chosen
            /\ pc = "done" => response.ocr_result = chosen

\* A run that ended with a tie of the two confidences, the response carrying the
\* primary result.
C1_TieKeepsPrimary ==
    /\ pc = "done"
    /\ FallbackRan
    /\ fallback_result.confidence = primary_result.confidence
    /\ response.ocr_result = primary_result
    /\ response.ocr_result # fallback_result

\* C2: the fallback engine is called if and only if the primary confidence is strictly
\* below 0.5 and a fallback engine is configured; in every other case the whole run
\* makes exactly one engine call and the response carries the primary result.
C2_FallbackIff ==
    LET fallbackCalled == \E i \in 1..Len(calls) : calls[i].callee = "ocr_fallback.extract_text"
        wanted == primary_result # NoResult /\ primary_result.confidence < 50 /\ hasFallback
    IN  /\ fallbackCalled <=> wanted
        /\ (RunEnded /\ ~wanted) => EngineCallCount(calls) = 1
        /\ (pc = "done" /\ ~wanted) => response.ocr_result = primary_result

\* A run with a fallback engine configured and a primary confidence of exactly 0.5,
\* ended after a single engine call.
C2_ExactlyHalfNoFallback ==
    /\ pc = "done"
    /\ hasFallback
    /\ primary_result.confidence = 50
    /\ EngineCallCount(calls) = 1
    /\ response.ocr_result = primary_result

PlaceholderTitles == {PyStr(<<"Extraction Failed">>), PyStr(<<"Extraction Error">>)}

\* C3: whenever a run degrades (the chosen OCR result has a confidence below 0.5, or
\* the recipe is the placeholder of a failed structuring), the warnings of the response
\* are not empty.
C3_DegradedRunsWarn ==
    (/\ pc = "done"
     /\ \/ response.ocr_result.confidence < 50
        \/ response.recipe.title \in PlaceholderTitles)
        => Len(response.warnings) > 0

\* C4: extract_recipe has no fatal path: whatever the engines and the model return, the
\* run never ends by raising.
C4_NoFatalPath == pc # "raised"

\* C5: whenever the fallback engine was run, the response has at least two warnings, the
\* first reporting the primary's low confidence, the second reporting which result is
\* used, both before the issues of the quality assessment, and engine_used is the
\* identifier of the engine whose result was chosen.
C5_FallbackWarnings ==
    /\ FallbackRan =>
          /\ Len(warnings) >= 2
          /\ warnings[1] = LowConfidenceWarning
          /\ warnings[2] \in {UsingFallbackWarning, FallbackLowerWarning}
    /\ (pc = "done" /\ FallbackRan) =>
        LET issues == AppendedIssues(quality_assessment)
        IN  /\ Len(response.warnings) >= 2
            /\ response.warnings[1] = LowConfidenceWarning
            /\ response.warnings[2] = IF response.ocr_result = fallback_result
                                      THEN UsingFallbackWarning ELSE FallbackLowerWarning
            /\ SubSeq(response.warnings, 3, Len(response.warnings)) = issues
            /\ response.ocr_result.engine_used =
                  IF fallback_result.confidence > primary_result.confidence
                  THEN "marker" ELSE "pymupdf"

\* A run that kept the primary result after trying the fallback, with issues of the
\* quality assessment after the two warnings.
C5_PrimaryKeptWithIssues ==
    /\ pc = "done"
    /\ FallbackRan
    /\ response.ocr_result = primary_result
    /\ response.ocr_result.engine_used = "pymupdf"
    /\ Len(response.warnings) > 2

CallOrderWithFallback ==
    <<"ocr_primary.extract_text", "ocr_fallback.extract_text",
      "llm_provider.evaluate_ocr_quality", "llm_provider.structure_recipe">>
CallOrderWithoutFallback ==
    <<"ocr_primary.extract_text",
      "llm_provider.evaluate_ocr_quality", "llm_provider.structure_recipe">>

\* C6: the collaborator calls of a run start in the order primary engine, fallback
\* engine (optional), evaluate_ocr_quality, structure_recipe; each starts only after
\* the one before it has returned, none is made twice, and at most one is in flight.
C6_CallsInOrder ==
    LET n == Len(calls)
        callees == [i \in 1..n |-> calls[i].callee]
    IN  /\ n <= 4
        /\ \/ callees = SubSeq(CallOrderWithFallback, 1, n)
           \/ n <= 3 /\ callees = SubSeq(CallOrderWithoutFallback, 1, n)
        /\ \A i \in 1..(n - 1) : calls[i].done
        /\ Cardinality({i \in 1..n : ~calls[i].done}) <= 1
        /\ RunEnded => \A i \in 1..n : calls[i].done

\* A run that ended after all four calls.
C6_FourCallsMade == pc = "done" /\ Len(calls) = 4 /\ calls[4].done

\* C7: the quality-assessment step never changes the chosen OCR result and never makes
\* another engine call; when the run goes on, the warnings are the warnings before it
\* followed by its detected_issues in their order, and structure_recipe is called with
\* the chosen text that evaluate_ocr_quality was called with.
C7_QualityOnlyAppends ==
    [][pc = "await_quality" =>
          /\ ocr_result' = ocr_result
          /\ EngineCallCount(calls') = EngineCallCount(calls)
          /\ pc' = "await_structure" =>
                /\ warnings' = warnings \o AppendedIssues(quality_assessment')
                /\ calls'[Len(calls')].callee = "llm_provider.structure_recipe"
                /\ calls'[Len(calls')].text = ocr_result.text
                /\ calls[Len(calls)].text = ocr_result.text]_vars

\* The run goes on to structure_recipe after an assessment that recommends a retry with
\* another engine and says the text is no recipe, its two issues after the two warnings
\* of the fallback.
C7_RetryAdviceIgnored ==
    /\ pc = "await_structure"
    /\ HasKey(quality_assessment, "recommended_action")
    /\ GetKey(quality_assessment, "recommended_action") = PyStr(<<"retry_with_different_engine">>)
    /\ GetKey(quality_assessment, "is_recipe_content") = PyBool(FALSE)
    /\ Len(warnings) = 4
    /\ warnings[3] = PyStr(<<"blurry">>)
    /\ warnings[4] = PyStr(<<"cropped">>)

\* The text has no "{", or no "}", or its first "{" does not precede its last "}"
NoBracePair(text) ==
    \/ \A i \in 1..Len(text) : text[i] # "{"
    \/ \A i \in 1..Len(text) : text[i] # "}"
    \/ \A i, j \in 1..Len(text) : (text[i] = "{" /\ text[j] = "}") => j < i

\* The text the operation of lastCall got from _generate
LastResponse == Generate(lastCall.outcome).ret

\* C8: a response with no "{", no "}", or whose first "{" does not precede its last "}"
\* yields the operation's fallback payload.
C8_NoBracePairYieldsFallback ==
    (lastCall.op # "none" /\ LastResponse.t = "str" /\ NoBracePair(LastResponse.s)) =>
        LET r == lastCall.result
        IN  /\ ~r.raised
            /\ lastCall.op = "evaluate_ocr_quality" =>
                  /\ GetKey(r.ret, "quality_score") = PyFloat(lastCall.confidence)
                  /\ GetKey(r.ret, "is_recipe_content") = PyBool(TRUE)
                  /\ GetKey(r.ret, "detected_issues").t = "list"
                  /\ Len(GetKey(r.ret, "detected_issues").items) > 0
                  /\ GetKey(r.ret, "recommended_action") = PyStr(<<"use_result">>)
            /\ lastCall.op = "structure_recipe" =>
                  r.ret.title = PyStr(<<"Extraction Failed">>)
            /\ lastCall.op = "generate_meal_plan" =>
                  r.ret.keys = <<"error", "message">>
            /\ lastCall.op = "analyze_nutrition" =>
                  /\ r.ret.keys = NutritionFields
                  /\ \A i \in 1..8 : r.ret.vals[i] = PyNone

\* structure_recipe got a text whose only "}" comes before its only "{" and returned
\* the placeholder.
C8_ReversedBraces ==
    /\ lastCall.op = "structure_recipe"
    /\ lastCall.outcome.kind = "ok"
    /\ LastResponse.s = <<"}", "{">>
    /\ lastCall.result.ret.title = PyStr(<<"Extraction Failed">>)

\* The operation of lastCall applied to another outcome
C9_SameOperation(outcome) ==
    CASE lastCall.op = "evaluate_ocr_quality" -> evaluate_ocr_quality(outcome, lastCall.confidence)
      [] lastCall.op = "structure_recipe" -> structure_recipe(outcome, lastCall.text, lastCall.notes)
      [] lastCall.op = "generate_meal_plan" -> generate_meal_plan(outcome)
      [] OTHER -> analyze_nutrition(outcome)

C9_Embedded ==
    /\ lastCall.op # "none"
    /\ lastCall.outcome.kind = "ok"
    /\ lastCall.outcome.body \in JsonBodies

C9_BareResult == C9_SameOperation(Outcome("ok", <<>>, lastCall.outcome.body, <<>>))

\* C9 as claimed: for every well-formed JSON object and every text before and after it,
\* braces included, the operation derives the result it derives from the bare object.
C9_EmbeddedAnywhere == C9_Embedded => lastCall.result = C9_BareResult

\* C9 as amended: for every well-formed JSON object, every text before it that holds
\* no "{" and every text after it that holds no "}", the operation derives the result
\* it derives from the bare object.
C9_EmbeddedInBraceFreeProse ==
    (/\ C9_Embedded
     /\ \A i \in 1..Len(lastCall.outcome.pre) : lastCall.outcome.pre[i] # "{"
     /\ \A i \in 1..Len(lastCall.outcome.suf) : lastCall.outcome.suf[i] # "}")
        => lastCall.result = C9_BareResult

\* An object parsed out of a response that has prose before it.
C9_ObjectAfterProse ==
    /\ C9_Embedded
    /\ lastCall.op = "evaluate_ocr_quality"
    /\ lastCall.outcome.pre = <<"x">>
    /\ lastCall.result.branch = "parsed"
    /\ HasKey(lastCall.result.ret, "detected_issues")

\* C10: none of the four operations lets an error escape: whatever the transport does
\* and whatever the parsed object holds, the operation returns a value.
C10_NoErrorEscapes ==
    lastCall.op # "none" => (~lastCall.result.raised /\ lastCall.result.exc = "none")

\* structure_recipe returned its placeholder after the model's response was no text
\* (the AttributeError of response.find was handled).
C10_ErrorsHandled ==
    /\ lastCall.op = "structure_recipe"
    /\ lastCall.outcome.kind = "nonstr"
    /\ lastCall.result.branch = "except"
    /\ lastCall.result.ret.title = PyStr(<<"Extraction Error">>)
    /\ ~lastCall.result.raised

\* C11: when the call to the model fails with an exception, structure_recipe returns
\* the recipe titled "Extraction Error" whose instructions carry the message and whose
\* notes carry the start of the source text, and evaluate_ocr_quality returns the
\* fallback assessment whose detected_issues holds the message.
C11_CallFailureRecorded ==
    (lastCall.op # "none" /\ lastCall.outcome.kind = "raise") =>
        LET r == lastCall.result
            msg == <<"Error:">> \o lastCall.outcome.body
        IN  /\ lastCall.op = "structure_recipe" =>
                  /\ r.ret.title = PyStr(<<"Extraction Error">>)
                  /\ r.ret.instructions = PyList(<<PyStr(msg)>>)
                  /\ r.ret.notes = OriginalTextNote(lastCall.text)
            /\ lastCall.op = "evaluate_ocr_quality" =>
                  r.ret = AssessmentFallback(lastCall.confidence, msg)

\* The identifiers of a list of loaded recipes
IdsOf(recipes) == [i \in 1..Len(recipes) |-> recipes[i].id]

\* The stored recipes: the files that hold one
StoredIds == {id \in DOMAIN recipes_dir : ~recipes_dir[id].corrupt}

\* The query, lower-cased, occurs in the lower-cased title, in the lower-cased text of
\* an ingredient or in a lower-cased tag
QueryOccurs(recipe, query) ==
    \/ TitleMatches(recipe, Lower(query))
    \/ \E i \in 1..Len(recipe.ingredients.items) :
          IngredientMatches(recipe.ingredients.items[i], Lower(query))
    \/ \E i \in 1..Len(recipe.tags.items) : TagMatches(recipe.tags.items[i], Lower(query))

\* The stored recipes the query occurs in
MatchingIds(query) == {id \in StoredIds : QueryOccurs(recipes_dir[id].recipe, query)}

\* C12: search_recipes returns no recipe twice, whatever the query and the store, also
\* when the query occurs in more than one field of a recipe.
C12_EachRecipeOnce ==
    lastStorage.op = "search_recipes" =>
        \A i, j \in 1..Len(lastStorage.ret) :
            i # j => lastStorage.ret[i].id # lastStorage.ret[j].id

\* C13: for a store of at most 1000 recipes and a limit of at least the number of
\* matches, the recipes search_recipes returns are exactly the stored recipes the
\* query occurs in.
C13_ExactlyTheMatches ==
    (/\ lastStorage.op = "search_recipes"
     /\ Cardinality(DOMAIN recipes_dir) <= ScanLimit
     /\ lastStorage.limit >= Cardinality(MatchingIds(lastStorage.query)))
        => {lastStorage.ret[i].id : i \in 1..Len(lastStorage.ret)}
               = MatchingIds(lastStorage.query)

\* The matches among the first 1000 files, in the order of their identifiers
ScannedMatches(query) ==
    SelectSeq(Slice(SortedFiles(DOMAIN recipes_dir), 0, ScanLimit),
              LAMBDA id : id \in MatchingIds(query))

\* C14: search_recipes returns at most limit entries, and they are the first limit
\* matches, in identifier order, among the first 1000 stored records.
C14_FirstLimitMatches ==
    lastStorage.op = "search_recipes" =>
        /\ Len(lastStorage.ret) <= lastStorage.limit
        /\ IdsOf(lastStorage.ret)
               = Slice(ScannedMatches(lastStorage.query), 0, lastStorage.limit)

\* The files other than id are what they were
OthersKept(id) ==
    /\ DOMAIN recipes_dir' = DOMAIN recipes_dir \ {id}
    /\ \A i \in DOMAIN recipes_dir' : recipes_dir'[i] = recipes_dir[i]

\* C20 as claimed: delete_recipe on an identifier with no stored record returns False
\* and leaves the store unchanged; on a stored identifier it returns True and removes
\* exactly that record.
C20_DeleteReturnsWhetherStored ==
    [][lastStorage'.op = "delete_recipe" =>
          IF lastStorage'.id \notin DOMAIN recipes_dir
          THEN lastStorage'.ret = FALSE /\ recipes_dir' = recipes_dir
          ELSE lastStorage'.ret = TRUE /\ OthersKept(lastStorage'.id)]_vars

\* C20 as amended: delete_recipe on an identifier with no stored record returns False
\* and leaves the store unchanged; on a stored identifier whose file can be removed it
\* returns True and removes exactly that record; when the removal fails it returns
\* False and leaves the store unchanged.  After a delete that returned True the
\* identifier is not stored.
C20_DeleteIdempotent ==
    [][lastStorage'.op = "delete_recipe" =>
          /\ IF lastStorage'.id \in DOMAIN recipes_dir /\ lastStorage'.removable
             THEN lastStorage'.ret = TRUE /\ OthersKept(lastStorage'.id)
             ELSE lastStorage'.ret = FALSE /\ recipes_dir' = recipes_dir
          /\ lastStorage'.ret = TRUE => lastStorage'.id \notin DOMAIN recipes_dir']_vars

\* A stored recipe was deleted and the other stored recipe is still there.
C20_DeletedOneOfTwo ==
    /\ lastStorage.op = "delete_recipe"
    /\ lastStorage.id = 1
    /\ lastStorage.ret = TRUE
    /\ DOMAIN recipes_dir = {2}
    /\ recipes_dir[2] = RecipeFile(TomatoSoup)

ServiceCalled == lastPlan.op = "MealPlanService.generate_meal_plan"

\* C15: MealPlanService.generate_meal_plan called while the repository holds no recipe
\* returns the dictionary with the error 'No recipes available for meal planning' and a
\* message, and makes no call of the provider.
C15_NoRecipesNoProviderCall ==
    (ServiceCalled /\ StoredIds = {}) =>
        /\ ~lastPlan.result.raised
        /\ GetKey(lastPlan.result.ret, "error")
               = PyStr(<<"No recipes available for meal planning">>)
        /\ HasKey(lastPlan.result.ret, "message")
        /\ lastPlan.result.calls = <<>>

\* The service was asked on an empty directory, with a provider that would have
\* answered with a plan.
C15_EmptyStoreAsked ==
    /\ ServiceCalled
    /\ recipes_dir = EmptyDir
    /\ lastPlan.outcome.kind = "ok"
    /\ lastPlan.outcome.body # <<"x">>
    /\ lastPlan.result.ret = NoRecipesError
    /\ lastPlan.result.calls = <<>>

\* C16: with at least one recipe available and the dates given as 'YYYY-MM-DD' text,
\* MealPlanService.generate_meal_plan calls the provider exactly once, with the
\* caller's preferences, the nutrition goal and all available recipes, and returns what
\* the provider returned.
C16_ProviderResultVerbatim ==
    (/\ ServiceCalled
     /\ StoredIds # {}
     /\ lastPlan.start_date.t = "str"
     /\ lastPlan.end_date.t = "str")
        => /\ ~lastPlan.result.raised
           /\ Len(lastPlan.result.calls) = 1
           /\ lastPlan.result.calls[1].user_preferences = lastPlan.preferences
           /\ lastPlan.result.calls[1].nutrition_goal = lastPlan.nutrition_goal
           /\ {r.id : r \in {lastPlan.result.calls[1].available_recipes[i] :
                               i \in 1..Len(lastPlan.result.calls[1].available_recipes)}}
                  = StoredIds
           /\ lastPlan.result.ret = generate_meal_plan(lastPlan.outcome).ret

\* The days of the calendar, and their order
Calendar ==
    {Date(y, m, d) : y \in 2023..2025, m \in 1..12, d \in 1..31}
        \ ({Date(y, m, d) : y \in 2023..2025, m \in {4, 6, 9, 11}, d \in {31}}
             \cup {Date(y, 2, d) : y \in {2023, 2025}, d \in 29..31}
             \cup {Date(2024, 2, d) : d \in 30..31})
NotAfter(a, b) ==
    \/ a.y < b.y
    \/ a.y = b.y /\ a.m < b.m
    \/ a.y = b.y /\ a.m = b.m /\ a.d <= b.d

\* C17: for a start date and an end date with start <= end, the days argument given to
\* the provider is the number of calendar days from start to end, both included.
C17_InclusiveDayCount ==
    (/\ ServiceCalled
     /\ lastPlan.start_date.t = "date"
     /\ lastPlan.end_date.t = "date"
     /\ NotAfter(lastPlan.start_date, lastPlan.end_date)
     /\ StoredIds # {})
        => /\ Len(lastPlan.result.calls) = 1
           /\ lastPlan.result.calls[1].days
                  = Cardinality({day \in Calendar : /\ NotAfter(lastPlan.start_date, day)
                                                    /\ NotAfter(day, lastPlan.end_date)})

\* The provider was asked for a Monday-to-Sunday week: 7 days.
C17_MondayToSunday ==
    /\ ServiceCalled
    /\ lastPlan.start_date = Date(2025, 6, 2)
    /\ lastPlan.end_date = Date(2025, 6, 8)
    /\ Len(lastPlan.result.calls) = 1
    /\ lastPlan.result.calls[1].days = 7

\* C18: POST /meal-plans answers every service result that holds the key error with
\* HTTP 400 and leaves the meal-plan store and the grocery-list store unchanged, also
\* when the result holds no message.
C18_ErrorIsBadRequest ==
    [][(/\ lastPlan'.op = "POST /meal-plans"
        /\ lastPlan'.meal_plan_data.t = "dict"
        /\ HasKey(lastPlan'.meal_plan_data, "error"))
          => /\ lastPlan'.status = 400
             /\ UNCHANGED <<meal_plans_db, grocery_lists_db>>]_vars

\* Every stored meal plan has exactly one stored grocery list that refers to it, every
\* stored grocery list refers to a stored meal plan, and each is stored under its id
PlansAndListsPaired ==
    /\ \A p \in DOMAIN meal_plans_db :
          /\ meal_plans_db[p].id = p
          /\ Cardinality({g \in DOMAIN grocery_lists_db :
                             grocery_lists_db[g].meal_plan_id = p}) = 1
    /\ \A g \in DOMAIN grocery_lists_db :
          /\ grocery_lists_db[g].id = g
          /\ grocery_lists_db[g].meal_plan_id \in DOMAIN meal_plans_db

\* C19: after any sequence of POST /meal-plans and DELETE /meal-plans/{id} requests
\* every stored meal plan has exactly one stored grocery list and every stored grocery
\* list refers to a stored meal plan; a request whose generation failed, or that was
\* answered 400 or 404, stores nothing.
C19_OneListPerPlan ==
    [][/\ PlansAndListsPaired'
       /\ (\/ /\ lastPlan'.op = "DELETE /meal-plans"
              /\ lastPlan'.status = 404
           \/ /\ lastPlan'.op = "POST /meal-plans"
              /\ \/ lastPlan'.status = 400
                 \/ /\ lastPlan'.meal_plan_data.t = "dict"
                    /\ HasKey(lastPlan'.meal_plan_data, "error"))
             => UNCHANGED <<meal_plans_db, grocery_lists_db>>]_vars

\* Two plans were stored and one of them deleted: the other plan and its list are
\* what is left.
C19_OneOfTwoPlansDeleted ==
    /\ lastPlan.op = "DELETE /meal-plans"
    /\ lastPlan.status = 200
    /\ lastPlan.id = 1
    /\ DOMAIN meal_plans_db = {3}
    /\ DOMAIN grocery_lists_db = {4}
    /\ grocery_lists_db[4].meal_plan_id = 3

\* ------------------------------------------------------------ recipe files

\* a == b in python: a member of a str-valued enum equals its value
RECURSIVE PyEq(_, _)
PyEq(a, b) ==
    IF a.t = "MealType" /\ b.t = "str" THEN b.s = <<a.value>>
    ELSE IF a.t = "str" /\ b.t = "MealType" THEN a.s = <<b.value>>
    ELSE IF a.t = "list" /\ b.t = "list"
         THEN /\ Len(a.items) = Len(b.items)
              /\ \A k \in 1..Len(a.items) : PyEq(a.items[k], b.items[k])
    ELSE a = b

\* What load_recipe returns for an identifier in the state before and after a step
StoredBefore(id) == RecipeStorageService_load_recipe(file_texts, id, now).ret
StoredAfter(id) == RecipeStorageService_load_recipe(file_texts', id, now').ret

\* The step is a save_recipe call
IsSaveStep == lastRecipe'.op = "save_recipe" /\ now' = now

\* C21: a save of an identifier leaves one record under that identifier and no
\* other record touched; load_recipe then returns what was saved, with updated_at
\* the time of the save and not earlier than the updated_at stored before, and with
\* the created_at the identifier's record had before the save when it had one.
C21_SaveKeepsCreation ==
    [][IsSaveStep =>
         LET id == lastRecipe'.id
         IN  /\ DOMAIN file_texts' = DOMAIN file_texts \cup {id}
             /\ \A f \in DOMAIN file_texts \ {id} : file_texts'[f] = file_texts[f]
             /\ StoredAfter(id) # PyNone
             /\ StoredAfter(id).id = UUID(id)
             /\ PyEq(StoredAfter(id).title, lastRecipe'.recipe.title)
             /\ StoredAfter(id).updated_at = PyFloat(now)
             /\ StoredBefore(id) # PyNone =>
                    /\ StoredAfter(id).updated_at.n >= StoredBefore(id).updated_at.n
                    /\ StoredAfter(id).created_at = StoredBefore(id).created_at]_vars

\* load_from_file raises on the file of the identifier
Unreadable(id) == Recipe_load_from_file(file_texts[id], now).exc # "none"

\* C22: load_recipe raises nothing; it returns None when no file is named after
\* the identifier (never saved, or deleted) and when the file does not load, and
\* otherwise the recipe the file holds, under the identifier asked for; GET
\* /recipes/{id} answers 404 exactly when that result is None.
C22_LoadReturnsNoneOrRecipe ==
    /\ lastRecipe.op = "load_recipe" =>
          /\ lastRecipe.exc = "none"
          /\ IF lastRecipe.id \notin DOMAIN file_texts THEN lastRecipe.ret = PyNone
             ELSE IF Unreadable(lastRecipe.id) THEN lastRecipe.ret = PyNone
             ELSE /\ lastRecipe.ret # PyNone
                  /\ lastRecipe.ret.id = UUID(lastRecipe.id)
                  /\ FileText(lastRecipe.ret) = file_texts[lastRecipe.id]
    /\ lastRecipe.op = "GET /recipes" =>
          IF lastRecipe.id \notin DOMAIN file_texts \/ Unreadable(lastRecipe.id)
          THEN lastRecipe.status = 404 /\ lastRecipe.ret = PyNone
          ELSE lastRecipe.status = 200 /\ lastRecipe.ret # PyNone

\* A file that does not load was asked for, and another file holds a recipe
C22_CorruptRecordLoaded ==
    /\ lastRecipe.op = "load_recipe"
    /\ lastRecipe.id \in DOMAIN file_texts
    /\ Unreadable(lastRecipe.id)
    /\ lastRecipe.ret = PyNone
    /\ \E f \in DOMAIN file_texts : ~Unreadable(f)

\* The identifiers of a list of recipes, as file names
NamesOf(recipes) == [k \in 1..Len(recipes) |-> recipes[k].id.n]

\* The files in the order of their names, and those of them that load
AllFiles == SortedFiles(DOMAIN file_texts)
ReadableOf(files) == SelectSeq(files, LAMBDA f : ~Unreadable(f))

\* The pages of a limit from an offset on, one after the other
RECURSIVE PagesFrom(_, _)
PagesFrom(limit, offset) ==
    IF offset >= Len(AllFiles) THEN <<>>
    ELSE NamesOf(RecipeStorageService_list_recipes(file_texts, limit, offset, now))
             \o PagesFrom(limit, offset + limit)

\* What C23 says of every listing but its window: the same call gives the same
\* list, the page after a page shares no recipe with it, and the first page with
\* the pages that follow it holds every readable recipe once, in the order of the
\* identifiers
PagesStableAndComplete ==
    /\ lastRecipe.previous.op = "list_recipes" =>
          /\ lastRecipe.previous.offset = lastRecipe.offset =>
                 lastRecipe.previous.ret = lastRecipe.ret
          /\ lastRecipe.previous.offset + lastRecipe.limit = lastRecipe.offset =>
                 \A i \in 1..Len(lastRecipe.previous.ret), j \in 1..Len(lastRecipe.ret) :
                     lastRecipe.previous.ret[i].id # lastRecipe.ret[j].id
    /\ lastRecipe.offset = 0 =>
          NamesOf(lastRecipe.ret) \o PagesFrom(lastRecipe.limit, lastRecipe.limit)
              = ReadableOf(AllFiles)

\* C23 as stated: a listing returns the records at positions [offset,
\* offset + limit) of all stored records in the order of their identifiers; the
\* same call returns the same list, consecutive pages are disjoint and together
\* they hold every readable recipe once.
C23_PageIsWindowOfRecords ==
    lastRecipe.op = "list_recipes" =>
        /\ NamesOf(lastRecipe.ret) =
               Slice(AllFiles, lastRecipe.offset, lastRecipe.offset + lastRecipe.limit)
        /\ PagesStableAndComplete

\* C23, amended: a listing returns the records that load among the files at
\* positions [offset, offset + limit) of all files in the order of their names, so
\* a page can hold fewer than limit records before the last one; the same call
\* returns the same list, consecutive pages are disjoint and together they hold
\* every readable recipe once.
C23_PageIsReadableOfWindow ==
    lastRecipe.op = "list_recipes" =>
        /\ NamesOf(lastRecipe.ret) =
               ReadableOf(Slice(AllFiles, lastRecipe.offset,
                                lastRecipe.offset + lastRecipe.limit))
        /\ PagesStableAndComplete

\* The first page of one came back empty for a file that does not load, and the
\* page after it holds a recipe
C23_EmptyPageBeforeFullPage ==
    /\ lastRecipe.op = "list_recipes"
    /\ lastRecipe.previous.op = "list_recipes"
    /\ lastRecipe.limit = 1
    /\ lastRecipe.previous.offset = 0
    /\ lastRecipe.offset = 1
    /\ lastRecipe.previous.ret = <<>>
    /\ Len(lastRecipe.ret) = 1

\* ------------------------------------------------- saves side by side

AllSaversDone == \A w \in Savers : savers[w].pc = "done"

\* C24: while save_recipe calls of one identifier run side by side with reads, no
\* read raises, a load returns None or the whole of a version some saver wrote, a
\* listing holds only whole versions, and once every saver has returned the
\* stored record is the version of the saver that returned last.
C24_LastWriteWins ==
    /\ lastRecipe.op = "load_recipe" =>
          /\ lastRecipe.exc = "none"
          /\ \/ lastRecipe.ret = PyNone
             \/ \E w \in Savers :
                   savers[w].pc # "idle" /\ FileText(lastRecipe.ret) = savers[w].text
    /\ lastRecipe.op = "list_recipes" =>
          \A k \in 1..Len(lastRecipe.ret) :
              \E w \in Savers :
                  savers[w].pc # "idle" /\ FileText(lastRecipe.ret[k]) = savers[w].text
    /\ AllSaversDone =>
          file_texts[SharedId] = savers[finished[Len(finished)]].text

\* -------------------------------------------------------------- OCR engines

\* The call was given a file that is missing, that has an extension the engine
\* does not support, or on which the extraction throws
ExtractionFails ==
    \/ ~lastOcr.file.exists
    \/ ~supports_format(lastOcr.engine, lastOcr.file)
    \/ ~lastOcr.file.opens
    \/ lastOcr.engine = PyMuPDFEngine /\ lastOcr.file.closed_len_raises

\* C25: extract_text of either engine raises nothing and returns a result of its
\* own engine with a confidence between 0 and 1; on a missing file, an unsupported
\* extension or an error thrown inside, the result has no text, confidence 0.0
\* and at least one warning.
C25_FailureIsData ==
    lastOcr.op = "extract_text" =>
        /\ lastOcr.result.exc = "none"
        /\ lastOcr.result.ret.engine_used = EngineUsed(lastOcr.engine)
        /\ lastOcr.result.ret.confidence \in 0..100
        /\ ExtractionFails =>
               /\ lastOcr.result.ret.text = <<>>
               /\ lastOcr.result.ret.confidence = 0
               /\ Len(lastOcr.result.ret.warnings) >= 1

\* Marker was given an existing image that does not open, and answered with a
\* warning
C25_ImageDoesNotOpen ==
    /\ lastOcr.op = "extract_text"
    /\ lastOcr.engine = MarkerEngine
    /\ lastOcr.file.exists
    /\ supports_format(MarkerEngine, lastOcr.file)
    /\ ~lastOcr.file.opens
    /\ lastOcr.result.ret.warnings = <<<<"Error extracting text:", "UnidentifiedImageError">>>>

\* -------------------------------------------------------------- the round trip

\* The fields the round trip is stated for
RoundTripFields == {"id", "title", "ingredients", "instructions", "meal_types",
                    "created_at", "updated_at"}

\* load_recipe was called for the identifier right after save_recipe stored it
LoadedAfterSave == lastRecipe.op = "load_recipe" /\ lastRecipe.saved.op = "save_recipe"

\* C26: loading what save_recipe stored under an identifier yields a recipe with
\* the same id, title, ingredients, instructions, meal types and timestamps as the
\* recipe that was saved.
C26_SaveLoadRoundTrip ==
    LoadedAfterSave =>
        /\ lastRecipe.exc = "none"
        /\ lastRecipe.ret # PyNone
        /\ \A field \in RoundTripFields :
               PyEq(lastRecipe.ret[field], lastRecipe.saved.recipe[field])

\* A recipe with an ingredient object that has a cost, saved over an older file
\* after the clock moved, was loaded back
C26_IngredientObjectsLoaded ==
    /\ LoadedAfterSave
    /\ lastRecipe.ret # PyNone
    /\ \E k \in 1..Len(lastRecipe.ret.ingredients.items) :
           /\ lastRecipe.ret.ingredients.items[k].t = "Ingredient"
           /\ lastRecipe.ret.ingredients.items[k].estimated_cost.t = "Decimal"
    /\ lastRecipe.ret.meal_types.items # <<>>
    /\ lastRecipe.ret.updated_at = PyFloat(MaxClock)

\* -------------------------------------------------------------- PUT /recipes

\* The step is a PUT request
IsPutStep == lastRecipe'.op = "PUT /recipes" /\ lastRecipe.op # "PUT /recipes"

\* What the file of an identifier holds, as parsed JSON, after the step, and what
\* a dump of the record stored before the step holds
FileAfter(id) == JsonLoads(file_texts'[id]).ret
DumpBefore(id) == JsonLoads(FileText(StoredBefore(id))).ret

\* C27: a PUT on a stored recipe leaves the same files, touches only the file of
\* its identifier, and in it sets the fields of the body to the body's values and
\* updated_at to the time of the request while the identifier, created_at and the
\* fields not sent stay as they were; where the record still loads, the loaded
\* recipe shows the same; a PUT on an identifier without a stored record answers
\* 404 and changes no file.
C27_PutChangesOnlySentFields ==
    [][IsPutStep =>
         \E id \in {lastRecipe'.id}, body \in {lastRecipe'.body} :
         \E before \in {StoredBefore(id)} :
            IF before = PyNone
            THEN lastRecipe'.status = 404 /\ file_texts' = file_texts
            ELSE \E file \in {FileAfter(id)}, dump \in {DumpBefore(id)}, after \in {StoredAfter(id)} :
                 /\ lastRecipe'.status # 404
                 /\ DOMAIN file_texts' = DOMAIN file_texts
                 /\ \A f \in DOMAIN file_texts \ {id} : file_texts'[f] = file_texts[f]
                 /\ file.keys = RecipeFields
                 /\ \A k \in 1..Len(RecipeFields) :
                        GetKey(file, RecipeFields[k]) =
                            IF RecipeFields[k] = "updated_at" THEN PyFloat(now)
                            ELSE IF HasKey(body, RecipeFields[k])
                                 THEN GetKey(body, RecipeFields[k])
                            ELSE GetKey(dump, RecipeFields[k])
                 /\ lastRecipe'.ret.id = before.id
                 /\ lastRecipe'.ret.created_at = before.created_at
                 /\ after # PyNone =>
                        /\ after.id = UUID(id)
                        /\ after.created_at = before.created_at
                        /\ after.updated_at = PyFloat(now)
                        /\ \A k \in 1..Len(RecipeFields) :
                               (RecipeFields[k] # "updated_at" /\ ~HasKey(body, RecipeFields[k]))
                                   => after[RecipeFields[k]] = before[RecipeFields[k]]]_vars

\* A PUT of two fields was answered with 200 for a recipe made at an earlier
\* time, next to another file
C27_TwoFieldsPutLater ==
    /\ lastRecipe.op = "PUT /recipes"
    /\ lastRecipe.status = 200
    /\ lastRecipe.body.keys = <<"prep_time_minutes", "notes">>
    /\ lastRecipe.ret.notes = PyStr(<<"cold">>)
    /\ lastRecipe.ret.title # PyNone
    /\ lastRecipe.ret.created_at # lastRecipe.ret.updated_at
    /\ Cardinality(DOMAIN file_texts) >= 2

\* -------------------------------------------------------------- database services

\* The minutes of a time, a missing time counting as 0, and the total the two
\* times of a row call for
MinutesOf(v) == IF v = PyNone THEN 0 ELSE v.n
ExpectedTotal(row) ==
    IF MinutesOf(row.prep_time_minutes) = 0 /\ MinutesOf(row.cook_time_minutes) = 0
    THEN PyNone
    ELSE PyInt(MinutesOf(row.prep_time_minutes) + MinutesOf(row.cook_time_minutes))

\* The step is a create_recipe that stored a row, or an update_recipe of a stored
\* row that names a time and not the total
IsTimedCreate == lastDb'.op = "create_recipe" /\ lastDb'.exc = "none"
IsTimedUpdate ==
    /\ lastDb'.op = "update_recipe"
    /\ lastDb'.found
    /\ HasKey(lastDb'.data, "prep_time_minutes") \/ HasKey(lastDb'.data, "cook_time_minutes")
    /\ ~HasKey(lastDb'.data, "total_time_minutes")

\* C28: after create_recipe, and after an update_recipe that names prep or cook
\* time and not the total, the row's total is its prep time plus its cook time, a
\* missing time counting as 0, and None when both are missing or zero; the times
\* stored are the ones named, and an update keeps the time it does not name.
C28_TotalIsPrepPlusCook ==
    [][IsTimedCreate \/ IsTimedUpdate =>
         \E row \in {db_recipes'[lastDb'.id]}, data \in {lastDb'.data} :
            /\ row.total_time_minutes = ExpectedTotal(row)
            /\ \A time \in {"prep_time_minutes", "cook_time_minutes"} :
                   row[time] = IF HasKey(data, time) THEN GetKey(data, time)
                               ELSE IF IsTimedCreate THEN PyNone
                               ELSE db_recipes[lastDb'.id][time]]_vars

\* An update named the cook time alone for a row with a prep time, and the total
\* is the stored prep time plus the new cook time
C28_CookTimeAloneUpdated ==
    /\ lastDb.op = "update_recipe"
    /\ lastDb.found
    /\ lastDb.data = PyDict(<<"cook_time_minutes">>, <<PyInt(MaxMinutes)>>)
    /\ db_recipes[lastDb.id].prep_time_minutes = PyInt(MaxMinutes)
    /\ db_recipes[lastDb.id].total_time_minutes = PyInt(MaxMinutes + MaxMinutes)

\* The sum of the ratings of a recipe, counted value by value
RECURSIVE StarsTotal(_, _)
StarsTotal(recipe_id, value) ==
    IF value = 0 THEN 0
    ELSE value * Cardinality({key \in DOMAIN db_ratings :
                                 key[2] = recipe_id /\ db_ratings[key].rating = value})
             + StarsTotal(recipe_id, value - 1)
RatingsStored(recipe_id) == Cardinality({key \in DOMAIN db_ratings : key[2] = recipe_id})

\* C29: every recipe's rating_count is the number of ratings stored for it and its
\* average_rating is their mean, both 0 when it has no rating.
C29_CountAndMeanOfRatings ==
    \A recipe_id \in DOMAIN db_recipes :
        /\ db_recipes[recipe_id].rating_count = RatingsStored(recipe_id)
        /\ db_recipes[recipe_id].average_rating.den >= 1
        /\ db_recipes[recipe_id].average_rating.num * RatingsStored(recipe_id)
               = StarsTotal(recipe_id, MaxStars) * db_recipes[recipe_id].average_rating.den
        /\ RatingsStored(recipe_id) = 0 => db_recipes[recipe_id].average_rating.num = 0

\* The last rating of one recipe was deleted while another recipe has two ratings
\* with a mean that is no whole number
C29_LastRatingDeleted ==
    /\ lastDb.op = "delete_rating"
    /\ lastDb.found
    /\ \E recipe_id \in DOMAIN db_recipes :
           RatingsStored(recipe_id) = 0 /\ db_recipes[recipe_id].rating_count = 0
    /\ \E recipe_id \in DOMAIN db_recipes :
           /\ db_recipes[recipe_id].rating_count = 2
           /\ db_recipes[recipe_id].average_rating.num = 3
           /\ db_recipes[recipe_id].average_rating.den = 2

\* -------------------------------------------------------------- users router

\* C30: no two stored users share an email address, and every stored user is
\* stored under the key of its own id.
C30_EmailsUniqueAndKeyedById ==
    /\ \A u \in DOMAIN users_db : users_db[u].id = u
    /\ \A u, v \in DOMAIN users_db : users_db[u].email = users_db[v].email => u = v

====
